---- MODULE Spec2Model ----
(***************************************************************************)
(* A model of the blade-html template engine: the Engine pipeline          *)
(* (extends -> sections -> yields -> block directives -> interpolation),   *)
(* the ExpressionEvaluator it relies on, the components, the dependency    *)
(* analysis, and the BladeHtml.render entry point with its registries.     *)
(*                                                                         *)
(* Text is a sequence of tokens.  A token is a record [k, a, b, c, i, j,   *)
(* s]: k is the kind, the other fields carry what the engine's regular     *)
(* expressions capture.  Kinds:                                            *)
(*   "w"   a run a of word characters and dots                             *)
(*   "c"   one other character a (space & < > " ' ; # - , [ ]) or the ::   *)
(*         separator                                                       *)
(*   "nl"  a line break                                                    *)
(*   "ext" @extends("a")        "sec" @section("a")   "endsec" @endsection *)
(*   "y"   @yield("a")          "yd"  @yield("a", "b")                     *)
(*   "if"  @if(a) / @if(a.b)    "else" @else          "endif" @endif       *)
(*   "foreach" @foreach(a as b) "endforeach" @endforeach                   *)
(*   "for" @for(a = i; a < LIMIT; a = a + s), "endfor" @endfor; b tells    *)
(*         the form of LIMIT: "lit" the number j, "len" c.length, "var"    *)
(*         the context entry c                                             *)
(*   "inc" @include("a")        "dir" @a(b)                                *)
(*   "expr" {{ a }} / {{ a.b }} (c = "path"), {{ a || 'b' }} (c = "or"),   *)
(*          or an expression the evaluator's compiler rejects (c = "bad")  *)
(*   "comp" @component("a") / @component("a", {b: c})                      *)
(*   "endcomp" @endcomponent                                               *)
(*   "ph"  a placeholder comment the engine emits (a = what, b = name)     *)
(***************************************************************************)
EXTENDS Integers, Sequences, FiniteSets, TLC

VARIABLES
  templates,   \* Engine.templates: name -> text
  sections,    \* Engine.sections: section name -> text (a field of the engine)
  data,        \* Engine.data, set by setData
  aliases,     \* BladeHtml.aliases (the alias names)
  directives,  \* Engine.directives: directive name -> handler behaviour
  result,      \* outcome of the render call just made (none after another operation)
  call,        \* the arguments and the registries of the render call just made
  components,  \* ComponentRegistry.components: name -> component class
  probe        \* the query just made and its answer (none after another operation)

vars == <<templates, sections, data, aliases, directives, result, call,
          components, probe>>

-----------------------------------------------------------------------------
(* Tokens and text                                                         *)

Tok(k, a, b) == [k |-> k, a |-> a, b |-> b, c |-> "", i |-> 0, j |-> 0, s |-> 0]

W(t) == Tok("w", t, "")
C(ch) == Tok("c", ch, "")
NL == Tok("nl", "", "")
Ext(p) == Tok("ext", p, "")
Sec(n) == Tok("sec", n, "")
EndSec == Tok("endsec", "", "")
Y(n) == Tok("y", n, "")
YD(n, d) == Tok("yd", n, d)
If(v) == Tok("if", v, "")
IfPath(v, p) == Tok("if", v, p)
Else == Tok("else", "", "")
EndIf == Tok("endif", "", "")
ForEach(coll, v) == Tok("foreach", coll, v)
EndForEach == Tok("endforeach", "", "")
EndFor == Tok("endfor", "", "")
Inc(n) == Tok("inc", n, "")
\* @include('n', {key: name})
IncWith(n, key, name) == [Tok("inc", n, key) EXCEPT !.c = name]
Dir(n, args) == Tok("dir", n, args)
E(v) == [Tok("expr", v, "") EXCEPT !.c = "path"]
EPath(v, p) == [Tok("expr", v, p) EXCEPT !.c = "path"]
EBad(v) == [Tok("expr", v, "") EXCEPT !.c = "bad"]
\* {{ v || 'lit' }}
EOr(v, lit) == [Tok("expr", v, lit) EXCEPT !.c = "or"]
ForLit(v, init, limit, step) ==
  [Tok("for", v, "lit") EXCEPT !.i = init, !.j = limit, !.s = step]
\* @for(v = init; v < arr.length; ..) and @for(v = init; v < name; ..)
ForLen(v, init, arr, step) ==
  [Tok("for", v, "len") EXCEPT !.c = arr, !.i = init, !.s = step]
ForVar(v, init, name, step) ==
  [Tok("for", v, "var") EXCEPT !.c = name, !.i = init, !.s = step]
Ph(what, n) == Tok("ph", what, n)
\* @component('n') and @component('n', {key: name}), closed by @endcomponent
Comp(n) == Tok("comp", n, "")
CompWith(n, key, name) == [Tok("comp", n, key) EXCEPT !.c = name]
EndComp == Tok("endcomp", "", "")

Tail2(seq, from) == SubSeq(seq, from, Len(seq))

\* the least index >= from whose token kind is in kinds, 0 when there is none
FirstKind(seq, from, kinds) ==
  LET hits == {x \in from..Len(seq) : seq[x].k \in kinds}
  IN IF hits = {} THEN 0 ELSE CHOOSE x \in hits : \A y \in hits : x <= y

-----------------------------------------------------------------------------
(* Values of the data context                                              *)

NoProps == [x \in {} |-> 0]
Val(t, s, n, items, props) ==
  [t |-> t, s |-> s, n |-> n, items |-> items, props |-> props]
Undef == Val("undef", <<>>, 0, <<>>, NoProps)
Null == Val("null", <<>>, 0, <<>>, NoProps)
Bool(b) == Val("bool", <<>>, IF b THEN 1 ELSE 0, <<>>, NoProps)
Num(n) == Val("num", <<>>, n, <<>>, NoProps)
Str(s) == Val("str", s, 0, <<>>, NoProps)
Arr(items) == Val("arr", <<>>, 0, items, NoProps)
Obj(props) == Val("obj", <<>>, 0, <<>>, props)

Lookup(ctx, name) == IF name \in DOMAIN ctx THEN ctx[name] ELSE Undef
Extend(ctx, name, v) ==
  [x \in (DOMAIN ctx) \cup {name} |-> IF x = name THEN v ELSE ctx[x]]

\* JavaScript truthiness, Boolean(v)
Truthy(v) ==
  CASE v.t = "undef" -> FALSE
    [] v.t = "null" -> FALSE
    [] v.t = "bool" -> v.n = 1
    [] v.t = "num" -> v.n # 0
    [] v.t = "str" -> v.s # <<>>
    [] OTHER -> TRUE

RECURSIVE JoinItems(_)
\* JavaScript String(v)
StringOf(v) ==
  CASE v.t = "undef" -> <<W("undefined")>>
    [] v.t = "null" -> <<W("null")>>
    [] v.t = "bool" -> IF v.n = 1 THEN <<W("true")>> ELSE <<W("false")>>
    [] v.t = "num" -> <<W(ToString(v.n))>>
    [] v.t = "str" -> v.s
    [] v.t = "arr" -> JoinItems(v.items)
    [] OTHER -> <<C("["), W("object"), C(" "), W("Object"), C("]")>>
JoinItems(items) ==
  IF items = <<>> THEN <<>>
  ELSE LET h == Head(items)
           hs == IF h.t \in {"undef", "null"} THEN <<>> ELSE StringOf(h)
       IN IF Len(items) = 1 THEN hs
          ELSE hs \o <<C(",")>> \o JoinItems(Tail(items))

-----------------------------------------------------------------------------
(* ExpressionEvaluator                                                     *)

\* getNestedProperty(obj, path) for the path a or a.b: [thrown, v].  The key
\* lookup `part in current` raises a TypeError on a primitive.
GetNestedProperty(ctx, a, b) ==
  IF a = "" THEN [thrown |-> FALSE, v |-> Undef]
  ELSE IF b = "" THEN [thrown |-> FALSE, v |-> Lookup(ctx, a)]
  ELSE IF a \notin DOMAIN ctx THEN [thrown |-> FALSE, v |-> Undef]
  ELSE LET cur == ctx[a] IN
    CASE cur.t \in {"undef", "null"} -> [thrown |-> FALSE, v |-> Undef]
      [] cur.t \in {"str", "num", "bool"} -> [thrown |-> TRUE, v |-> Undef]
      [] cur.t = "obj" ->
           [thrown |-> FALSE,
            v |-> IF b \in DOMAIN cur.props THEN cur.props[b] ELSE Undef]
      [] OTHER -> [thrown |-> FALSE, v |-> Undef]

\* evaluate(expr, context): a property path is resolved directly, anything
\* else goes to the expression compiler; every failure is caught and gives
\* null.  The text `v || 'lit'` holds none of the characters that send an
\* expression to the compiler, so it is looked up as one property name, which
\* no context holds.
Evaluate(tok, ctx) ==
  IF tok.c = "bad" THEN Null
  ELSE IF tok.c = "or" THEN Undef
  ELSE LET r == GetNestedProperty(ctx, tok.a, tok.b)
       IN IF r.thrown THEN Null ELSE r.v

\* evaluateCondition(condition, context): the simple-path branch has no
\* try/catch of its own; anything else is Boolean(evaluate(..))
EvaluateCondition(tok, ctx) ==
  IF tok.c = "bad" THEN [thrown |-> FALSE, b |-> Truthy(Evaluate(tok, ctx))]
  ELSE LET r == GetNestedProperty(ctx, tok.a, tok.b)
       IN [thrown |-> r.thrown, b |-> (~r.thrown) /\ Truthy(r.v)]

-----------------------------------------------------------------------------
(* Engine: escapeHtml and processExpressions                               *)

RECURSIVE ReplaceChar(_, _, _)
\* html.replace(/ch/g, entity)
ReplaceChar(text, ch, entity) ==
  IF text = <<>> THEN <<>>
  ELSE LET h == Head(text)
       IN (IF h.k = "c" /\ h.a = ch THEN entity ELSE <<h>>)
            \o ReplaceChar(Tail(text), ch, entity)

AmpEntity == <<C("&"), W("amp"), C(";")>>
LtEntity == <<C("&"), W("lt"), C(";")>>
GtEntity == <<C("&"), W("gt"), C(";")>>
QuotEntity == <<C("&"), W("quot"), C(";")>>
AposEntity == <<C("&"), C("#"), W("039"), C(";")>>

EscapeHtml(text) ==
  ReplaceChar(ReplaceChar(ReplaceChar(ReplaceChar(ReplaceChar(text,
    "&", AmpEntity), "<", LtEntity), ">", GtEntity), "\"", QuotEntity),
    "'", AposEntity)

\* result ?? ''
NullishToEmpty(v) == IF v.t \in {"undef", "null"} THEN <<>> ELSE StringOf(v)

RECURSIVE ProcessExpressions(_, _)
ProcessExpressions(content, ctx) ==
  IF content = <<>> THEN <<>>
  ELSE LET h == Head(content)
       IN (IF h.k = "expr"
           THEN EscapeHtml(NullishToEmpty(Evaluate(h, ctx)))
           ELSE <<h>>) \o ProcessExpressions(Tail(content), ctx)

-----------------------------------------------------------------------------
(* Engine: extends, sections, yields                                       *)

NoSections == [x \in {} |-> <<>>]
NoTemplates == [x \in {} |-> <<>>]

\* a lookup that takes a registered empty text for a template
FoundEvenIfEmpty(tpls, name) == name \in DOMAIN tpls

\* templates.get(name) followed by the `!template` test
Found(tpls, name) == name \in DOMAIN tpls /\ tpls[name] # <<>>

RECURSIVE SectionsFrom(_, _, _)
\* processSections: the exec loop of /@section(..)([\s\S]*?)@endsection/g
SectionsFrom(content, from, secs) ==
  LET i == FirstKind(content, from, {"sec"})
      j == IF i = 0 THEN 0 ELSE FirstKind(content, i + 1, {"endsec"})
  IN IF i = 0 \/ j = 0 THEN secs
     ELSE SectionsFrom(content, j + 1,
            Extend(secs, content[i].a, SubSeq(content, i + 1, j - 1)))

ProcessSections(content, secs) == SectionsFrom(content, 1, secs)

\* an extends resolution that keeps the child's text as the working text
ExtendsInPlace(tpls, content, secs) ==
  [ok |-> TRUE, err |-> <<>>, text |-> content,
   sections |-> ProcessSections(content, secs)]

ProcessExtends(tpls, content, secs) ==
  LET i == FirstKind(content, 1, {"ext"})
  IN IF i # 0
     THEN IF ~Found(tpls, content[i].a)
          THEN [ok |-> FALSE, err |-> <<"Parent template not found", content[i].a>>,
                text |-> <<>>, sections |-> secs]
          ELSE [ok |-> TRUE, err |-> <<>>, text |-> tpls[content[i].a],
                sections |-> ProcessSections(content, secs)]
     ELSE [ok |-> TRUE, err |-> <<>>, text |-> content,
           sections |-> ProcessSections(content, secs)]

\* this.sections.get(name) || fallback
SectionOr(secs, name, fallback) ==
  IF name \in DOMAIN secs /\ secs[name] # <<>> THEN secs[name] ELSE fallback

DefaultText(d) == IF d = "" THEN <<>> ELSE <<W(d)>>

RECURSIVE YieldDefaultPass(_, _, _)
\* replace(/@yield\s*\(\s*['"](.*?)['"]\s*,\s*['"](.*?)['"]\s*\)/g, ..): the
\* lazy (.*?) of the name runs over anything but a line break, so a match that
\* starts at a @yield("n") ends in the next @yield("m", "d") of the same line
YieldDefaultPass(seq, i, secs) ==
  IF i > Len(seq) THEN <<>>
  ELSE LET t == seq[i] IN
    IF t.k = "yd"
    THEN SectionOr(secs, t.a, DefaultText(t.b)) \o YieldDefaultPass(seq, i + 1, secs)
    ELSE IF t.k = "y"
    THEN LET j == FirstKind(seq, i + 1, {"yd", "nl"})
         IN IF j # 0 /\ seq[j].k = "yd"
            THEN DefaultText(seq[j].b) \o YieldDefaultPass(seq, j + 1, secs)
            ELSE <<t>> \o YieldDefaultPass(seq, i + 1, secs)
    ELSE <<t>> \o YieldDefaultPass(seq, i + 1, secs)

RECURSIVE YieldPlainPass(_, _)
\* replace(/@yield\s*\(\s*['"](.*?)['"]\s*\)/g, ..): on a left-over
\* @yield("n", "d") the captured name is `n", "d`, which names no section
YieldPlainPass(seq, secs) ==
  IF seq = <<>> THEN <<>>
  ELSE LET t == Head(seq)
       IN (CASE t.k = "y" -> SectionOr(secs, t.a, <<>>)
             [] t.k = "yd" -> <<>>
             [] OTHER -> <<t>>) \o YieldPlainPass(Tail(seq), secs)

ProcessYields(content, secs) ==
  YieldPlainPass(YieldDefaultPass(content, 1, secs), secs)

-----------------------------------------------------------------------------
(* Engine: processDirectives                                               *)

RECURSIVE YieldLatePass(_, _)
\* the @yield pass of processDirectives: /@yield\s*\(\s*['"]([^'"]+)['"]\s*\)/g
YieldLatePass(seq, secs) ==
  IF seq = <<>> THEN <<>>
  ELSE LET t == Head(seq)
       IN (IF t.k = "y" THEN SectionOr(secs, t.a, <<>>) ELSE <<t>>)
            \o YieldLatePass(Tail(seq), secs)

\* the callback of the @if replace: the chosen branch, '' when the condition throws
IfBranch(cond, ifContent, elseContent, ctx) ==
  LET r == EvaluateCondition(cond, ctx)
  IN IF r.thrown THEN <<>> ELSE IF r.b THEN ifContent ELSE elseContent

RECURSIVE IfPass(_, _, _)
\* one replace(/@if\s*\(\s*(.*?)\s*\)([\s\S]*?)(?:@else([\s\S]*?))?@endif/g, ..):
\* a match runs from an @if to the first @endif after it and splits at the
\* first @else in between; the replacement is not scanned again
IfPass(seq, i, ctx) ==
  IF i > Len(seq) THEN <<>>
  ELSE IF seq[i].k # "if" THEN <<seq[i]>> \o IfPass(seq, i + 1, ctx)
  ELSE LET q == FirstKind(seq, i + 1, {"endif"})
           p == FirstKind(seq, i + 1, {"else", "endif"})
       IN IF q = 0 THEN <<seq[i]>> \o IfPass(seq, i + 1, ctx)
          ELSE IfBranch(seq[i],
                        SubSeq(seq, i + 1, p - 1),
                        IF p < q THEN SubSeq(seq, p + 1, q - 1) ELSE <<>>,
                        ctx) \o IfPass(seq, q + 1, ctx)

\* Number(v)
\* a binding written into this.data itself
BindInPlace(ctx, name, v) ==
  [own |-> Extend(ctx, name, v), local |-> Extend(ctx, name, v)]

\* `{ ...this.data, [name]: v }`: the binding goes into a new object and
\* this.data stays as it is.  own: this.data afterwards; local: the new object
Spread(ctx, name, v) == [own |-> ctx, local |-> Extend(ctx, name, v)]

IsNumeric(v) == v.t \in {"num", "bool", "null"} \/ (v.t = "str" /\ v.s = <<>>)
                  \/ (v.t = "arr" /\ v.items = <<>>)
NumberOf(v) == IF v.t \in {"num", "bool"} THEN v.n ELSE 0

DefaultForLimit == 5

\* the limit of a @for header: [valid, n]
ForLimit(t, ctx) ==
  CASE t.b = "lit" -> [valid |-> TRUE, n |-> t.j]
    [] t.b = "len" ->
         LET arr == Lookup(ctx, t.c)
         IN IF arr.t = "arr" THEN [valid |-> TRUE, n |-> Len(arr.items)]
            ELSE [valid |-> FALSE, n |-> 0]
    [] OTHER ->
         LET v == Lookup(ctx, t.c)
             n == IF IsNumeric(v) THEN NumberOf(v) ELSE 0
         IN [valid |-> TRUE, n |-> IF n = 0 THEN DefaultForLimit ELSE n]

RECURSIVE ForBody(_, _, _, _)
\* the {{ }} replace inside a @for body for loop value i: the loop variable
\* itself gives String(i), any other path String(evaluate(..) || '')
ForBody(body, loopVar, i, ctx) ==
  IF body = <<>> THEN <<>>
  ELSE LET h == Head(body)
           v == Evaluate(h, Spread(ctx, loopVar, Num(i)).local)
       IN (IF h.k # "expr" THEN <<h>>
           ELSE IF h.c = "path" /\ h.b = "" /\ h.a = loopVar THEN <<W(ToString(i))>>
           ELSE IF Truthy(v) THEN StringOf(v) ELSE <<>>)
            \o ForBody(Tail(body), loopVar, i, ctx)

RECURSIVE ForIterate(_, _, _, _, _, _)
\* for (let i = init; i < limit; i += step) loopContent += ...
ForIterate(body, loopVar, i, limit, step, ctx) ==
  IF i < limit
  THEN ForBody(body, loopVar, i, ctx)
         \o ForIterate(body, loopVar, i + step, limit, step, ctx)
  ELSE <<>>

\* a header whose loop never ends: the step is 0 and the first test succeeds
ForDiverges(t, ctx) ==
  LET lim == ForLimit(t, ctx) IN lim.valid /\ t.s = 0 /\ t.i < lim.n

RECURSIVE ForPass(_, _, _)
\* replace(/@for\s*\((.*?);(.*?);(.*?)\)([\s\S]*?)@endfor/g, ..): `@endfor`
\* also matches the first seven characters of `@endforeach`
ForPass(seq, i, ctx) ==
  IF i > Len(seq) THEN <<>>
  ELSE IF seq[i].k # "for" THEN <<seq[i]>> \o ForPass(seq, i + 1, ctx)
  ELSE LET q == FirstKind(seq, i + 1, {"endfor", "endforeach"})
           lim == ForLimit(seq[i], ctx)
       IN IF q = 0 THEN <<seq[i]>> \o ForPass(seq, i + 1, ctx)
          ELSE (IF ~lim.valid \/ ForDiverges(seq[i], ctx) THEN <<>>
                ELSE ForIterate(SubSeq(seq, i + 1, q - 1), seq[i].a, seq[i].i,
                                lim.n, seq[i].s, ctx))
                 \o (IF seq[q].k = "endforeach" THEN <<W("each")>> ELSE <<>>)
                 \o ForPass(seq, q + 1, ctx)

RECURSIVE ForHangs(_, _, _)
\* whether some @for the pass expands never ends
ForHangs(seq, i, ctx) ==
  IF i > Len(seq) THEN FALSE
  ELSE IF seq[i].k # "for" THEN ForHangs(seq, i + 1, ctx)
  ELSE LET q == FirstKind(seq, i + 1, {"endfor", "endforeach"})
       IN IF q = 0 THEN ForHangs(seq, i + 1, ctx)
          ELSE ForDiverges(seq[i], ctx) \/ ForHangs(seq, q + 1, ctx)

RECURSIVE ForEachBody(_, _)
\* the {{ }} replace inside a @foreach body: the callback returns the value of
\* evaluate(..) itself, which replace() turns into a string
ForEachBody(body, loopContext) ==
  IF body = <<>> THEN <<>>
  ELSE LET h == Head(body)
       IN (IF h.k = "expr" THEN StringOf(Evaluate(h, loopContext)) ELSE <<h>>)
            \o ForEachBody(Tail(body), loopContext)

RECURSIVE ForEachItems(_, _, _, _)
\* items.map(item => ...).join('')
ForEachItems(items, itemVar, body, ctx) ==
  IF items = <<>> THEN <<>>
  ELSE ForEachBody(body, Spread(ctx, itemVar, Head(items)).local)
         \o ForEachItems(Tail(items), itemVar, body, ctx)

RECURSIVE ForEachPass(_, _, _)
\* replace(/@foreach\s*\(\s*(.*?)\s+as\s+(.*?)\s*\)([\s\S]*?)@endforeach/g, ..)
ForEachPass(seq, i, ctx) ==
  IF i > Len(seq) THEN <<>>
  ELSE IF seq[i].k # "foreach" THEN <<seq[i]>> \o ForEachPass(seq, i + 1, ctx)
  ELSE LET q == FirstKind(seq, i + 1, {"endforeach"})
           items == Evaluate(E(seq[i].a), ctx)
       IN IF q = 0 THEN <<seq[i]>> \o ForEachPass(seq, i + 1, ctx)
          ELSE (IF items.t # "arr" THEN <<>>
                ELSE ForEachItems(items.items, seq[i].b,
                                  SubSeq(seq, i + 1, q - 1), ctx))
                 \o ForEachPass(seq, q + 1, ctx)

\* what a registered handler does with (args, data)
HandlerResult(h, args, ctx) ==
  CASE h = "throws" -> [thrown |-> TRUE, text |-> <<>>]
    [] h = "echo" -> [thrown |-> FALSE, text |-> StringOf(Lookup(ctx, args))]
    [] OTHER -> [thrown |-> FALSE, text |-> <<W("handled")>>]

RECURSIVE OneDirective(_, _, _, _)
\* result.replace(new RegExp(`@${name}\s*\(\s*(.*?)\s*\)`, 'g'), ..) with the
\* try/catch that turns a throwing handler into ''
OneDirective(seq, name, h, ctx) ==
  IF seq = <<>> THEN <<>>
  ELSE LET t == Head(seq)
           r == HandlerResult(h, t.b, ctx)
       IN (IF t.k = "dir" /\ t.a = name
           THEN (IF r.thrown THEN <<>> ELSE r.text)
           ELSE <<t>>) \o OneDirective(Tail(seq), name, h, ctx)

RECURSIVE CustomDirectives(_, _, _)
\* for (const [name, handler] of this.directives.entries()) ...
CustomDirectives(seq, dirs, ctx) ==
  IF dirs = <<>> THEN seq
  ELSE CustomDirectives(OneDirective(seq, Head(dirs).name, Head(dirs).h, ctx),
                        Tail(dirs), ctx)

\* this.directives.get(name): the handler registered under a name, "" for none
HandlerOf(dirs, name) ==
  IF \E x \in 1..Len(dirs) : dirs[x].name = name
  THEN dirs[CHOOSE x \in 1..Len(dirs) : dirs[x].name = name].h
  ELSE ""

\* DirectiveRegistry.process(name, args, data).  BladeHtml registers every
\* handler with its DirectiveRegistry and with its Engine alike, so both hold
\* the same handlers.
DirectiveRegistryProcess(dirs, name, args, ctx) ==
  IF HandlerOf(dirs, name) = ""
  THEN <<Ph("Directive not found", name)>>
  ELSE IF HandlerResult(HandlerOf(dirs, name), args, ctx).thrown
  THEN <<Ph("Error in directive", name)>>
  ELSE HandlerResult(HandlerOf(dirs, name), args, ctx).text

-----------------------------------------------------------------------------
(* Engine: @include and render                                             *)

IncludeName == "__include"

EngineError(kind, name, secs) ==
  [ok |-> FALSE, err |-> <<kind, name>>, text |-> <<>>, sections |-> secs,
   hang |-> FALSE]

\* a render that keeps the sections captured by earlier renders
KeepSections(secs) == secs

\* this.sections.clear()
ClearSections(secs) == NoSections

RECURSIVE EngineRender(_, _, _, _, _)
RECURSIVE IncludePass(_, _, _, _)

\* includeData: this.data itself, or with `{key: name}` given the new object
\* `{ ...this.data, ...additionalData }`
IncludeData(tok, ctx) ==
  IF tok.b = "" THEN [own |-> ctx, local |-> ctx]
  ELSE Spread(ctx, tok.b, Lookup(ctx, tok.c))

\* replace(/@include\s*\(\s*['"]([^'"]+)['"]..\)/g, ..): a missing template
\* gives a placeholder comment; otherwise a new Engine holding only the
\* included text (as `__include`, no directives) renders it, and what that
\* render throws leaves the replace
IncludePass(seq, i, tpls, ctx) ==
  IF i > Len(seq) THEN [ok |-> TRUE, err |-> <<>>, text |-> <<>>, hang |-> FALSE]
  ELSE IF seq[i].k # "inc"
  THEN LET rest == IncludePass(seq, i + 1, tpls, ctx)
       IN [rest EXCEPT !.text = <<seq[i]>> \o @]
  ELSE IF ~Found(tpls, seq[i].a)
  THEN LET rest == IncludePass(seq, i + 1, tpls, ctx)
       IN [rest EXCEPT !.text = <<Ph("Template not found", seq[i].a)>> \o @]
  ELSE LET sub == EngineRender([x \in {IncludeName} |-> tpls[seq[i].a]],
                               NoSections, <<>>, IncludeName,
                               IncludeData(seq[i], ctx).local)
       IN IF ~sub.ok \/ sub.hang
          THEN [ok |-> sub.ok, err |-> sub.err, text |-> <<>>, hang |-> sub.hang]
          ELSE LET rest == IncludePass(seq, i + 1, tpls, ctx)
               IN [rest EXCEPT !.text = sub.text \o @]

\* the end of Engine.render: custom directives, then processExpressions
AfterIncludes(incs, secs, dirs, ctx) ==
  IF ~incs.ok \/ incs.hang
  THEN [ok |-> incs.ok, err |-> incs.err, text |-> <<>>, sections |-> secs,
        hang |-> incs.hang]
  ELSE [ok |-> TRUE, err |-> <<>>,
        text |-> ProcessExpressions(CustomDirectives(incs.text, dirs, ctx), ctx),
        sections |-> secs, hang |-> FALSE]

\* processDirectives after its @yield and @if passes: @for, @foreach, @include
AfterIfs(ifs, secs, tpls, dirs, ctx) ==
  IF ForHangs(ifs, 1, ctx)
  THEN [ok |-> TRUE, err |-> <<>>, text |-> <<>>, sections |-> secs,
        hang |-> TRUE]
  ELSE AfterIncludes(
         IncludePass(ForEachPass(ForPass(ifs, 1, ctx), 1, ctx), 1, tpls, ctx),
         secs, dirs, ctx)

\* Engine.render after processExtends: processYields, then processDirectives
AfterExtends(ext, tpls, dirs, ctx) ==
  IF ~ext.ok THEN EngineError(ext.err[1], ext.err[2], ext.sections)
  ELSE AfterIfs(
         IfPass(YieldLatePass(ProcessYields(ext.text, ext.sections),
                              ext.sections), 1, ctx),
         ext.sections, tpls, dirs, ctx)

\* Engine.render(name) on an engine with the given templates, sections field,
\* directives and data: [ok, err, text, sections, hang]
EngineRender(tpls, secs, dirs, name, ctx) ==
  IF ~Found(tpls, name) THEN EngineError("Template not found", name, secs)
  ELSE AfterExtends(ProcessExtends(tpls, tpls[name], ClearSections(secs)),
                    tpls, dirs, ctx)

-----------------------------------------------------------------------------
(* Engine: the object held in this.data, which is the caller's mapping,     *)
(* after the passes that bind loop variables and include data               *)

RECURSIVE DataAfterIterations(_, _, _, _, _)
\* this.data after the iterations of one @for
DataAfterIterations(loopVar, i, limit, step, ctx) ==
  IF i < limit
  THEN DataAfterIterations(loopVar, i + step, limit, step,
                           Spread(ctx, loopVar, Num(i)).own)
  ELSE ctx

RECURSIVE DataAfterForPass(_, _, _)
DataAfterForPass(seq, i, ctx) ==
  IF i > Len(seq) THEN ctx
  ELSE IF seq[i].k # "for" \/ FirstKind(seq, i + 1, {"endfor", "endforeach"}) = 0
  THEN DataAfterForPass(seq, i + 1, ctx)
  ELSE DataAfterForPass(
         seq, FirstKind(seq, i + 1, {"endfor", "endforeach"}) + 1,
         IF ~ForLimit(seq[i], ctx).valid \/ ForDiverges(seq[i], ctx) THEN ctx
         ELSE DataAfterIterations(seq[i].a, seq[i].i, ForLimit(seq[i], ctx).n,
                                  seq[i].s, ctx))

RECURSIVE DataAfterEach(_, _, _)
\* this.data after the items.map of one @foreach
DataAfterEach(items, itemVar, ctx) ==
  IF items = <<>> THEN ctx
  ELSE DataAfterEach(Tail(items), itemVar,
                     Spread(ctx, itemVar, Head(items)).own)

RECURSIVE DataAfterForEachPass(_, _, _)
DataAfterForEachPass(seq, i, ctx) ==
  IF i > Len(seq) THEN ctx
  ELSE IF seq[i].k # "foreach" \/ FirstKind(seq, i + 1, {"endforeach"}) = 0
  THEN DataAfterForEachPass(seq, i + 1, ctx)
  ELSE DataAfterForEachPass(
         seq, FirstKind(seq, i + 1, {"endforeach"}) + 1,
         IF Evaluate(E(seq[i].a), ctx).t # "arr" THEN ctx
         ELSE DataAfterEach(Evaluate(E(seq[i].a), ctx).items, seq[i].b, ctx))

RECURSIVE DataAfterIncludePass(_, _, _, _)
RECURSIVE DataAfterEngine(_, _, _, _)

\* this.data after the @include replace: an include without data hands
\* this.data itself to the engine that renders the included text
DataAfterIncludePass(seq, i, tpls, ctx) ==
  IF i > Len(seq) THEN ctx
  ELSE IF seq[i].k # "inc" \/ ~Found(tpls, seq[i].a)
  THEN DataAfterIncludePass(seq, i + 1, tpls, ctx)
  ELSE DataAfterIncludePass(
         seq, i + 1, tpls,
         IF seq[i].b = ""
         THEN DataAfterEngine([x \in {IncludeName} |-> tpls[seq[i].a]],
                              NoSections, IncludeName, ctx)
         ELSE IncludeData(seq[i], ctx).own)

\* this.data after processDirectives, given the text its @if pass left
DataAfterIfs(ifs, tpls, ctx) ==
  IF ForHangs(ifs, 1, ctx) THEN ctx
  ELSE DataAfterIncludePass(
         ForEachPass(ForPass(ifs, 1, ctx), 1, ctx), 1, tpls,
         DataAfterForEachPass(ForPass(ifs, 1, ctx), 1,
                              DataAfterForPass(ifs, 1, ctx)))

DataAfterExtends(ext, tpls, ctx) ==
  IF ~ext.ok THEN ctx
  ELSE DataAfterIfs(
         IfPass(YieldLatePass(ProcessYields(ext.text, ext.sections),
                              ext.sections), 1, ctx),
         tpls, ctx)

\* this.data after Engine.render(name)
DataAfterEngine(tpls, secs, name, ctx) ==
  IF ~Found(tpls, name) THEN ctx
  ELSE DataAfterExtends(ProcessExtends(tpls, tpls[name], ClearSections(secs)),
                        tpls, ctx)

-----------------------------------------------------------------------------
(* Components: Component, ComponentRegistry, ComponentProcessor            *)

\* the component names without a dot that the host and its templates use
BareNames == {"card", "alert", "ghost", "greet"}

\* `components.${name}`
WithComponents(n) == "components." \o n

\* name.includes('.') and name.startsWith('components.')
HasDot(n) == n \notin BareNames
StartsWithComponents(n) == \E b \in BareNames : n = WithComponents(b)

\* startsWith('components.') ? substring('components.'.length) : name
ShortOf(n) ==
  IF StartsWithComponents(n)
  THEN CHOOSE b \in BareNames : n = WithComponents(b)
  ELSE n

\* includes('.') ? name : `components.${name}`
FullOf(n) == IF HasDot(n) THEN n ELSE WithComponents(n)

\* the classes a registry holds: a class of the host whose render() returns
\* this.processExpressions(tpl), a class of the host whose render() throws,
\* the TemplateComponent made from a registered template, and the
\* DynamicComponent that stands for another registered name.  The modelled
\* component templates hold words and `{{ }}` only.
HostClass(tpl) == [kind |-> "class", tpl |-> tpl, target |-> ""]
ThrowingClass == [kind |-> "throws", tpl |-> <<>>, target |-> ""]
TemplateComponent(tpl) == [kind |-> "template", tpl |-> tpl, target |-> ""]
DynamicComponent(target) == [kind |-> "alias", tpl |-> <<>>, target |-> target]

\* new Map(): no slot set
NoSlots == [x \in {} |-> <<>>]

\* slot(name, defaultContent): this.slots.get(name) || defaultContent
Slot(slots, name, defaultContent) ==
  IF name \in DOMAIN slots /\ slots[name] # <<>> THEN slots[name]
  ELSE defaultContent

IsSpace(t) == t.k = "nl" \/ t = C(" ")

RECURSIVE TrimStart(_)
TrimStart(seq) ==
  IF seq # <<>> /\ IsSpace(Head(seq)) THEN TrimStart(Tail(seq)) ELSE seq

RECURSIVE TrimEnd(_)
TrimEnd(seq) ==
  IF seq # <<>> /\ IsSpace(seq[Len(seq)])
  THEN TrimEnd(SubSeq(seq, 1, Len(seq) - 1))
  ELSE seq

\* slotContent.trim()
Trim(seq) == TrimEnd(TrimStart(seq))

\* `main || 'lit'` in a component template: the escaped string of the main
\* value unless it is null or undefined, the escaped literal otherwise
ComponentOr(mainResult, lit) ==
  IF mainResult.t \in {"undef", "null"} THEN EscapeHtml(<<W(lit)>>)
  ELSE EscapeHtml(StringOf(mainResult))

\* the callback of Component.processExpressions for one `{{ expr }}`:
\* `content` is the default slot, unescaped; a property path is escaped when
\* it has a value, and everything else ends as the empty string
ComponentExpression(tok, props, slots) ==
  IF tok.c = "path" /\ tok.a = "content" /\ tok.b = ""
  THEN Slot(slots, "default", <<>>)
  ELSE IF tok.c = "or"
  THEN IF tok.a = "content" /\ Slot(slots, "default", <<>>) # <<>>
       THEN Slot(slots, "default", <<>>)
       ELSE ComponentOr(Lookup(props, tok.a), tok.b)
  ELSE EscapeHtml(NullishToEmpty(Evaluate(tok, props)))

RECURSIVE ComponentExpressions(_, _, _)
\* Component.processExpressions(template)
ComponentExpressions(tpl, props, slots) ==
  IF tpl = <<>> THEN <<>>
  ELSE (IF Head(tpl).k = "expr"
        THEN ComponentExpression(Head(tpl), props, slots)
        ELSE <<Head(tpl)>>)
       \o ComponentExpressions(Tail(tpl), props, slots)

RECURSIVE RenderInstance(_, _, _, _)
\* component.render() for an instance of class cls with the given props and
\* slots: [thrown, text].  The DynamicComponent creates its target and copies
\* Object.entries(this.slots), which is empty for a Map, so the target
\* renders without slots.
RenderInstance(comps, cls, props, slots) ==
  CASE cls.kind = "throws" -> [thrown |-> TRUE, text |-> <<>>]
    [] cls.kind = "alias" ->
         IF cls.target \notin DOMAIN comps
         THEN [thrown |-> TRUE, text |-> <<>>]
         ELSE RenderInstance(comps, comps[cls.target], props, NoSlots)
    [] OTHER ->
         [thrown |-> FALSE, text |-> ComponentExpressions(cls.tpl, props, slots)]

\* BladeHtml.loadComponent(name) for a host without component files: what is
\* left of it is the registry test
LoadComponent(comps, name) == name \in DOMAIN comps

\* a create callback that registers the wrapper without probing the
\* `components.` name
ResolveUnprobed(comps, name) ==
  IF name \in DOMAIN comps THEN comps
  ELSE Extend(comps, name, DynamicComponent(WithComponents(name)))

\* a create callback that asks the registry only
ResolveRegistryOnly(comps, name) == comps

\* the registry after the `create` callback of BladeHtml.render resolved a
\* name: the registry, then the loader, then the `components.` name, under
\* which a found class is registered for the bare name
Resolve(comps, name) ==
  IF name \in DOMAIN comps \/ LoadComponent(comps, name) THEN comps
  ELSE IF ~HasDot(name) /\ LoadComponent(comps, WithComponents(name))
  THEN Extend(comps, name, DynamicComponent(WithComponents(name)))
  ELSE comps

\* ExpressionEvaluator.evaluateObject for `{key: name}` and for no argument
PropsOf(tok, ctx) ==
  IF tok.b = "" THEN NoProps ELSE [x \in {tok.b} |-> Lookup(ctx, tok.c)]

\* the replace callback of ComponentProcessor.process for one invocation, the
\* name already resolved
Invoke(comps, tok, body, ctx) ==
  IF tok.a \notin DOMAIN comps THEN <<Ph("Component not found", tok.a)>>
  ELSE IF RenderInstance(comps, comps[tok.a], PropsOf(tok, ctx),
                         [x \in {"default"} |-> Trim(body)]).thrown
  THEN <<Ph("Error rendering component", tok.a)>>
  ELSE RenderInstance(comps, comps[tok.a], PropsOf(tok, ctx),
                      [x \in {"default"} |-> Trim(body)]).text

\* a match that runs to the last @endcomponent of the text
BodyToLastEnd(seq, i) ==
  SubSeq(seq, i + 1,
         (CHOOSE x \in (i + 1)..Len(seq) :
            /\ seq[x].k = "endcomp"
            /\ \A y \in (x + 1)..Len(seq) : seq[y].k # "endcomp") - 1)

\* ([\s\S]*?)@endcomponent for the @component at position i: the text up to
\* the first @endcomponent after it
BodyOf(seq, i) == SubSeq(seq, i + 1, FirstKind(seq, i + 1, {"endcomp"}) - 1)

\* the index of the @endcomponent that ends the match starting at i
EndOf(seq, i) == i + 1 + Len(BodyOf(seq, i))

RECURSIVE ComponentPass(_, _, _, _)
\* ComponentProcessor.process(content, {create}, data) from position i on:
\* each @component(..) up to the first @endcomponent after it is replaced,
\* and the registry carries what the create callback registered
ComponentPass(seq, i, comps, ctx) ==
  IF i > Len(seq) THEN [text |-> <<>>, components |-> comps]
  ELSE IF seq[i].k = "comp" /\ FirstKind(seq, i + 1, {"endcomp"}) # 0
  THEN LET rest == ComponentPass(seq, EndOf(seq, i) + 1,
                                 Resolve(comps, seq[i].a), ctx)
       IN [rest EXCEPT !.text =
             Invoke(Resolve(comps, seq[i].a), seq[i], BodyOf(seq, i), ctx)
               \o @]
  ELSE LET rest == ComponentPass(seq, i + 1, comps, ctx)
       IN [rest EXCEPT !.text = <<seq[i]>> \o @]

-----------------------------------------------------------------------------
(* BladeHtml.render                                                        *)

\* The characters of a reference handed to render(), as tokens.  A reference
\* not listed is a plain name: one run of word characters.
RefText(r) ==
  CASE r = "my-page" -> <<W("my"), C("-"), W("page")>>
    [] r = "t1::home" -> <<W("t1"), C("::"), W("home")>>
    [] r = "t2::home" -> <<W("t2"), C("::"), W("home")>>
    [] r = "t1::layout" -> <<W("t1"), C("::"), W("layout")>>
    [] r = "Hi {{ name }}" -> <<W("Hi"), C(" "), E("name")>>
    [] r = "@extends('ghost')" -> <<Ext("ghost")>>
    [] OTHER -> <<W(r)>>

\* nameOrContent.includes('::') and nameOrContent.split('::')[0]
HasAliasSep(r) == \E x \in 1..Len(RefText(r)) : RefText(r)[x] = C("::")
AliasOf(r) == RefText(r)[1].a

\* nameOrContent.match(/^[\w.]+$/)
IsNameShaped(r) == \A x \in 1..Len(RefText(r)) : RefText(r)[x].k = "w"

\* includes('@') || includes('{{') || includes('<') || !match(/^[\w.]+$/)
LooksInline(r) ==
  \/ \E x \in 1..Len(RefText(r)) :
       \/ RefText(r)[x].k \notin {"w", "c", "nl"}
       \/ RefText(r)[x] = C("<")
  \/ ~IsNameShaped(r)

\* `inline_template_${Date.now()}`
InlineName == "inline_template_0"

Remove(f, name) == [x \in (DOMAIN f) \ {name} |-> f[x]]

-----------------------------------------------------------------------------
(* BladeHtml: analyzeTemplateDependencies and registerUsedComponents       *)

RECURSIVE NamesOf(_, _)
\* extractTemplateNames(content, regex): the names the markers of one kind
\* carry, in the order of the text
NamesOf(seq, kind) ==
  IF seq = <<>> THEN <<>>
  ELSE (IF Head(seq).k = kind THEN <<Head(seq).a>> ELSE <<>>)
       \o NamesOf(Tail(seq), kind)

\* a helper that records the name as written only
AddNameOnly(used, name) == used \cup {name}

\* addComponentName(name), under the test that guards its call
AddComponentName(used, name) ==
  IF StartsWithComponents(name) \/ ~HasDot(name)
  THEN used \cup {name}
         \cup (IF StartsWithComponents(name) THEN {ShortOf(name)} ELSE {})
         \cup (IF ~HasDot(name) THEN {WithComponents(name)} ELSE {})
  ELSE used

RECURSIVE AddComponentNames(_, _)
AddComponentNames(used, names) ==
  IF names = <<>> THEN used
  ELSE AddComponentNames(AddComponentName(used, Head(names)), Tail(names))

\* BladeHtml.getTemplateContent(name): '' for a name that is not registered.
\* For `alias::rest` with a registered alias the engine is asked for
\* `${dir}::${rest}`, the alias's directory in place of the alias; templates
\* are registered under the name as given, so that lookup finds nothing.
TemplateContentOf(tpls, als, name) ==
  IF HasAliasSep(name) /\ AliasOf(name) \in als THEN <<>>
  ELSE IF Found(tpls, name) THEN tpls[name]
  ELSE <<>>

\* a traversal that never takes a name for processed
NeverProcessed(processed, name) == FALSE

\* processedTemplates.has(templateName)
AlreadyProcessed(processed, name) == name \in processed

MaxAnalyzeSteps == 12

RECURSIVE AnalyzeLoop(_, _, _, _, _, _, _)
\* the queue loop of analyzeTemplateDependencies: `scans` lists the names
\* whose content was fetched, `done` tells that the queue emptied within the
\* steps the model follows
AnalyzeLoop(tpls, als, queue, processed, used, scans, steps) ==
  IF queue = <<>> THEN [done |-> TRUE, used |-> used, scans |-> scans]
  ELSE IF steps = 0 THEN [done |-> FALSE, used |-> used, scans |-> scans]
  ELSE IF AlreadyProcessed(processed, Head(queue))
  THEN AnalyzeLoop(tpls, als, Tail(queue), processed, used, scans, steps - 1)
  ELSE AnalyzeLoop(
         tpls, als,
         Tail(queue)
           \o NamesOf(TemplateContentOf(tpls, als, Head(queue)), "inc")
           \o NamesOf(TemplateContentOf(tpls, als, Head(queue)), "ext"),
         processed \cup {Head(queue)},
         AddComponentNames(
           used, NamesOf(TemplateContentOf(tpls, als, Head(queue)), "comp")),
         Append(scans, Head(queue)),
         steps - 1)

\* analyzeTemplateDependencies(initialTemplateName)
AnalyzeTemplateDependencies(tpls, als, root) ==
  AnalyzeLoop(tpls, als, <<root>>, {}, {}, <<>>, MaxAnalyzeSteps)

\* registerUsedComponents(usedComponents) for a host without component
\* files: a used name neither form of which is registered becomes a
\* TemplateComponent, under both forms, when a template is registered under
\* its full or its short name
RegisterUsedComponents(comps, tpls, used) ==
  LET fresh == {n \in used :
                  /\ ShortOf(n) \notin DOMAIN comps
                  /\ FullOf(n) \notin DOMAIN comps
                  /\ (Found(tpls, FullOf(n)) \/ Found(tpls, ShortOf(n)))}
      names == {ShortOf(n) : n \in fresh} \cup {FullOf(n) : n \in fresh}
  IN [x \in (DOMAIN comps) \cup names |->
        IF x \in DOMAIN comps THEN comps[x]
        ELSE TemplateComponent(IF Found(tpls, FullOf(x)) THEN tpls[FullOf(x)]
                               ELSE tpls[ShortOf(x)])]

-----------------------------------------------------------------------------
(* BladeHtml.render: the call                                              *)

BladeResult(status, out, err, tpls, secs, dat, comps) ==
  [status |-> status, out |-> out, err |-> err, templates |-> tpls,
   sections |-> secs, data |-> dat, components |-> comps]

\* the end of BladeHtml.render: ComponentProcessor.process on what
\* engine.render returned
AfterComponents(cp, tpls, secs, D) ==
  BladeResult("ok", cp.text, <<>>, tpls, secs, D, cp.components)

\* BladeHtml.render from engine.render on: what it threw or returned; the
\* inline template is unregistered only when engine.render returned
AfterEngine(r, tpls1, isInline, D, comps) ==
  IF ~r.ok THEN BladeResult("error", <<>>, r.err, tpls1, r.sections, D, comps)
  ELSE IF r.hang
  THEN BladeResult("hang", <<>>, <<>>, tpls1, r.sections, D, comps)
  ELSE AfterComponents(ComponentPass(r.text, 1, comps, D),
                       IF isInline THEN Remove(tpls1, InlineName) ELSE tpls1,
                       r.sections, D)

\* BladeHtml.render from setData on, the dependencies loaded
RenderLoaded(tpls1, secs, dirs, comps, templateName, isInline, D) ==
  IF ~Found(tpls1, templateName)
  THEN BladeResult("error", <<>>, <<"Template not found", templateName>>,
                   tpls1, secs, D, comps)
  ELSE AfterEngine(EngineRender(tpls1, secs, dirs, templateName, D),
                   tpls1, isInline,
                   DataAfterEngine(tpls1, secs, templateName, D), comps)

\* BladeHtml.render with the template name settled.  The dependency loading
\* discovers template files below the root directory, of which the modelled
\* host keeps none, and registers the components the analysis names.
RenderNamed(tpls1, secs, dirs, comps, als, templateName, isInline, D) ==
  RenderLoaded(tpls1, secs, dirs,
               RegisterUsedComponents(
                 comps, tpls1,
                 AnalyzeTemplateDependencies(tpls1, als, templateName).used),
               templateName, isInline, D)

\* a detection that looks at the shape of the reference only
InlineByShape(tpls, ref) == LooksInline(ref)

\* the inline-template detection of BladeHtml.render
IsInline(tpls, ref) == ~Found(tpls, ref) /\ LooksInline(ref)

\* BladeHtml.render(nameOrContent, data): the outcome and the engine state it
\* leaves
BladeRender(tpls, secs, dat, als, dirs, comps, ref, D) ==
  IF HasAliasSep(ref) /\ AliasOf(ref) \notin als
  THEN BladeResult("error", <<>>, <<"Alias not registered", AliasOf(ref)>>,
                   tpls, secs, dat, comps)
  ELSE IF IsInline(tpls, ref)
  THEN RenderNamed(Extend(tpls, InlineName, RefText(ref)), secs, dirs, comps,
                   als, InlineName, TRUE, D)
  ELSE RenderNamed(tpls, secs, dirs, comps, als, ref, FALSE, D)

-----------------------------------------------------------------------------
(* The state machine                                                       *)

NoData == [x \in {} |-> Undef]
NoComponents == [x \in {} |-> <<>>]
NoCall == [ref |-> "", data |-> NoData, templates |-> NoTemplates,
           aliases |-> {}, directives |-> <<>>, sections |-> NoSections,
           components |-> NoComponents]
NoResult == [status |-> "none", out |-> <<>>, err |-> <<>>]
NoProbe == [op |-> "none", name |-> "", args |-> <<>>, data |-> NoData,
            thrown |-> FALSE, value |-> <<>>]

\* registerCommonDirectives(): the built-in handlers, whose bodies are leaf
\* utilities; no modelled template invokes them
Builtins ==
  <<[name |-> "json", h |-> "builtin"], [name |-> "raw", h |-> "builtin"],
    [name |-> "date", h |-> "builtin"], [name |-> "class", h |-> "builtin"],
    [name |-> "style", h |-> "builtin"], [name |-> "dump", h |-> "builtin"],
    [name |-> "concat", h |-> "builtin"],
    [name |-> "formatDate", h |-> "builtin"]>>

Init ==
  /\ templates = NoTemplates
  /\ sections = NoSections
  /\ data = NoData
  /\ aliases = {}
  /\ directives = Builtins
  /\ result = NoResult
  /\ call = NoCall
  /\ components = NoComponents
  /\ probe = NoProbe

Forget == result' = NoResult /\ call' = NoCall /\ probe' = NoProbe

MaxRegistered == 3

RegisterTemplate(n, t) ==
  /\ Cardinality((DOMAIN templates) \cup {n}) <= MaxRegistered
  /\ templates' = Extend(templates, n, t)
  /\ Forget
  /\ UNCHANGED <<sections, data, aliases, directives, components>>

UnregisterTemplate(n) ==
  /\ n \in DOMAIN templates
  /\ templates' = Remove(templates, n)
  /\ Forget
  /\ UNCHANGED <<sections, data, aliases, directives, components>>

RegisterAlias(a) ==
  /\ aliases' = aliases \cup {a}
  /\ Forget
  /\ UNCHANGED <<templates, sections, data, directives, components>>

\* Map.set keeps the position of a name that is already registered
SetHandler(dirs, name, h) ==
  IF \E x \in 1..Len(dirs) : dirs[x].name = name
  THEN [x \in 1..Len(dirs) |->
          IF dirs[x].name = name THEN [name |-> name, h |-> h] ELSE dirs[x]]
  ELSE Append(dirs, [name |-> name, h |-> h])

RegisterDirective(name, h) ==
  /\ directives' = SetHandler(directives, name, h)
  /\ Forget
  /\ UNCHANGED <<templates, sections, data, aliases, components>>

\* render(ref, D); `call` keeps the arguments, the registries and the engine's
\* sections field as they were when the call was made
Render(ref, D) ==
  \E r \in {BladeRender(templates, sections, data, aliases, directives,
                        components, ref, D)} :
    /\ call' = [ref |-> ref, data |-> D, templates |-> templates,
                aliases |-> aliases, directives |-> directives,
                sections |-> sections, components |-> components]
    /\ result' = [status |-> r.status, out |-> r.out, err |-> r.err]
    /\ templates' = r.templates
    /\ sections' = r.sections
    /\ data' = r.data
    /\ components' = r.components
    /\ probe' = NoProbe
    /\ UNCHANGED <<aliases, directives>>

\* registerComponent(name, componentClass)
RegisterComponent(name, cls) ==
  /\ components' = Extend(components, name, cls)
  /\ Forget
  /\ UNCHANGED <<templates, sections, data, aliases, directives>>

\* analyzeTemplateDependencies(root)
Analyze(root) ==
  \E r \in {AnalyzeTemplateDependencies(templates, aliases, root)} :
    /\ probe' = [op |-> "analyze", name |-> root, args |-> r.scans,
                 data |-> NoData, thrown |-> ~r.done, value |-> r.used]
    /\ result' = NoResult
    /\ call' = NoCall
    /\ UNCHANGED <<templates, sections, data, aliases, directives, components>>

\* ExpressionEvaluator.evaluate(expr, ctx), called by the host
AskEvaluate(tok, ctx) ==
  /\ probe' = [op |-> "evaluate", name |-> "", args |-> tok, data |-> ctx,
               thrown |-> FALSE, value |-> Evaluate(tok, ctx)]
  /\ result' = NoResult
  /\ call' = NoCall
  /\ UNCHANGED <<templates, sections, data, aliases, directives, components>>

\* ExpressionEvaluator.evaluateCondition(condition, ctx), called by the host
AskEvaluateCondition(tok, ctx) ==
  /\ probe' = [op |-> "evaluateCondition", name |-> "", args |-> tok,
               data |-> ctx, thrown |-> EvaluateCondition(tok, ctx).thrown,
               value |-> EvaluateCondition(tok, ctx).b]
  /\ result' = NoResult
  /\ call' = NoCall
  /\ UNCHANGED <<templates, sections, data, aliases, directives, components>>

\* ExpressionEvaluator.getNestedProperty(ctx, path), called by the host
AskGetNestedProperty(tok, ctx) ==
  /\ probe' = [op |-> "getNestedProperty", name |-> "", args |-> tok,
               data |-> ctx,
               thrown |-> GetNestedProperty(ctx, tok.a, tok.b).thrown,
               value |-> GetNestedProperty(ctx, tok.a, tok.b).v]
  /\ result' = NoResult
  /\ call' = NoCall
  /\ UNCHANGED <<templates, sections, data, aliases, directives, components>>

\* getDirectiveRegistry().process(name, args, D)
Process(name, args, D) ==
  /\ probe' = [op |-> "process", name |-> name, args |-> args, data |-> D,
               thrown |-> FALSE,
               value |-> DirectiveRegistryProcess(directives, name, args, D)]
  /\ result' = NoResult
  /\ call' = NoCall
  /\ UNCHANGED <<templates, sections, data, aliases, directives, components>>

-----------------------------------------------------------------------------
(* Spec: a host that registers templates, aliases and a directive, and      *)
(* renders by name, by alias and inline                                     *)

\* the texts the host registers under each name
LayoutTexts ==
  { <<W("top"), Y("a"), W("end")>>,
    <<>> }

PageTexts ==
  { <<Ext("layout"), Sec("a"), W("A"), EndSec>>,
    <<Inc("part"), W("x")>>,
    <<W("Hello"), E("name"), Dir("boom", "name")>> }

PartTexts ==
  { <<W("part"), E("name")>>,
    <<Ext("page"), Sec("a"), W("P"), EndSec>>,
    <<Inc("page"), W("p")>> }

TextsFor(n) ==
  CASE n = "layout" -> LayoutTexts
    [] n = "page" -> PageTexts
    [] n = "part" -> PartTexts
    [] OTHER -> { <<W("home"), E("name")>> }

Names == {"layout", "page", "part", "t1::home"}
Refs == Names \cup {"ghost", "my-page", "t2::home", "Hi {{ name }}",
                    "@extends('ghost')"}
AliasNames == {"t1"}
Handlers == {"throws", "echo"}
Datas == { NoData, [x \in {"name"} |-> Str(<<W("World")>>)] }

Next ==
  \/ \E n \in Names : \E t \in TextsFor(n) : RegisterTemplate(n, t)
  \/ \E n \in Names : UnregisterTemplate(n)
  \/ \E a \in AliasNames : RegisterAlias(a)
  \/ \E h \in Handlers : RegisterDirective("boom", h)
  \/ \E ref \in Refs : \E D \in Datas : Render(ref, D)

Spec == Init /\ [][Next]_vars

-----------------------------------------------------------------------------
(* SpecInherit: a host that registers a layout and a page extending it and  *)
(* renders them                                                             *)

ParentTexts ==
  { <<W("top"), Y("a"), W("end")>>,
    <<W("top"), YD("a", "Def"), W("end")>>,
    <<Y("a"), W("mid"), YD("b", "Def")>>,
    <<Y("a"), NL, YD("b", "Def")>>,
    <<YD("b", "Def"), W("mid"), Y("a"), Y("b")>>,
    <<Ext("base"), Sec("c"), W("in"), Y("a"), EndSec>>,
    <<>> }

ChildTexts ==
  { <<Ext("layout"), Sec("a"), W("A"), EndSec, W("stray")>>,
    <<W("stray"), Ext("layout"), Sec("a"), EndSec>>,
    <<Ext("layout"), Sec("a"), W("A"), EndSec, Sec("b"), W("B"), EndSec>>,
    <<Ext("layout"), W("stray")>> }

NextInherit ==
  \/ \E t \in ParentTexts : RegisterTemplate("layout", t)
  \/ \E t \in ChildTexts : RegisterTemplate("page", t)
  \/ \E n \in {"layout", "page"} : UnregisterTemplate(n)
  \/ \E ref \in {"layout", "page"} : Render(ref, NoData)

SpecInherit == Init /\ [][NextInherit]_vars

-----------------------------------------------------------------------------
(* SpecBlocks: a host that registers one template using block directives    *)
(* and interpolation and renders it against several contexts                *)

Markup == <<C("<"), W("b"), C(">"), C("&"), C("\""), C("'")>>

\* top level, @if branch, @foreach body, @for body
InterpolationTexts ==
  { <<W("a"), E("v"), W("b")>>,
    <<If("c"), E("v"), Else, W("no"), EndIf>>,
    <<ForEach("items", "x"), E("x"), W("s"), EndForEach>>,
    <<ForLit("i", 0, 2, 1), E("v"), E("i"), EndFor>> }

\* expressions that fail: a property of a primitive, a text the compiler rejects
FailingTexts ==
  { <<EPath("o", "p"), EBad("v"), W("z")>>,
    <<ForEach("items", "x"), EPath("o", "p"), EBad("x"), W("s"), EndForEach>>,
    <<ForLen("i", 0, "items", 1), E("v"), EPath("o", "p"), W("s"), EndFor>> }

ConditionalTexts ==
  { <<If("c"), W("A"), EndIf>>,
    <<If("c"), W("A"), Else, W("B"), EndIf>>,
    <<If("c"), W("X"), If("d"), W("Y"), EndIf, W("Z"), EndIf>>,
    <<If("c"), If("d"), W("Y"), Else, W("N"), EndIf, Else, W("M"), EndIf>> }

LoopTexts ==
  { <<ForEach("items", "x"), E("x"), W("s"), EndForEach>>,
    <<E("x"), ForEach("items", "x"), E("x"), E("v"), EndForEach, E("x")>>,
    <<ForEach("v", "x"), W("B"), EndForEach>>,
    <<ForEach("rows", "r"), ForEach("items", "x"), E("x"), EndForEach,
      EndForEach>> }

BlockTexts ==
  InterpolationTexts \cup FailingTexts \cup ConditionalTexts \cup LoopTexts

Ctx(v, c, d, items) ==
  [n \in {"v", "c", "d", "items", "x", "o", "rows"} |->
     CASE n = "v" -> v
       [] n = "c" -> c
       [] n = "d" -> d
       [] n = "items" -> items
       [] n = "x" -> Str(<<W("outer")>>)
       [] n = "o" -> Str(<<W("text")>>)
       [] OTHER -> Arr(<<Num(1)>>)]

\* contexts whose interpolated values are defined strings and numbers
PlainDatas ==
  { Ctx(Str(<<W("plain")>>), Bool(TRUE), Bool(TRUE),
        Arr(<<Str(<<W("one")>>), Str(<<W("two")>>)>>)),
    Ctx(Num(7), Bool(TRUE), Bool(FALSE), Arr(<<Num(1), Num(2)>>)),
    Ctx(Str(<<W("plain")>>), Bool(FALSE), Bool(TRUE), Arr(<<>>)) }

\* contexts whose values hold the five characters escapeHtml replaces
MarkupDatas ==
  { Ctx(Str(Markup), Bool(TRUE), Bool(TRUE),
        Arr(<<Str(Markup), Str(<<W("two")>>)>>)) }

\* contexts in which the interpolated values are undefined or null
MissingDatas ==
  { Ctx(Undef, Bool(FALSE), Bool(FALSE), Arr(<<Undef, Null>>)),
    Ctx(Null, Bool(TRUE), Bool(TRUE), Arr(<<Str(<<W("one")>>), Undef>>)),
    [n \in {"c"} |-> Bool(TRUE)] }

BlockDatas == PlainDatas \cup MarkupDatas \cup MissingDatas

NextBlocks ==
  \/ \E t \in BlockTexts : RegisterTemplate("t", t)
  \/ UnregisterTemplate("t")
  \/ \E D \in BlockDatas : Render("t", D)

SpecBlocks == Init /\ [][NextBlocks]_vars

-----------------------------------------------------------------------------
(* The rendering the specification describes, for well-nested block         *)
(* directives: the reading against which the claims are stated              *)

RECURSIVE MatchEnd(_, _, _, _, _)
\* the index of the closing marker that balances an opening marker standing
\* before j, at nesting depth `depth` when j is read; 0 when there is none
MatchEnd(seq, j, depth, open, close) ==
  IF j > Len(seq) THEN 0
  ELSE IF seq[j].k = close
  THEN IF depth = 1 THEN j ELSE MatchEnd(seq, j + 1, depth - 1, open, close)
  ELSE IF seq[j].k = open THEN MatchEnd(seq, j + 1, depth + 1, open, close)
  ELSE MatchEnd(seq, j + 1, depth, open, close)

RECURSIVE ElseAt(_, _, _)
\* the index of the @else that belongs to the @if standing before j, 0 when it
\* has none
ElseAt(seq, j, depth) ==
  IF j > Len(seq) THEN 0
  ELSE CASE seq[j].k = "if" -> ElseAt(seq, j + 1, depth + 1)
         [] seq[j].k = "endif" ->
              IF depth = 1 THEN 0 ELSE ElseAt(seq, j + 1, depth - 1)
         [] seq[j].k = "else" ->
              IF depth = 1 THEN j ELSE ElseAt(seq, j + 1, depth)
         [] OTHER -> ElseAt(seq, j + 1, depth)

\* {{ expr }}: the escaped string form of the value, empty for undefined, null
\* and a failed evaluation
DescribedExpr(tok, ctx) == EscapeHtml(NullishToEmpty(Evaluate(tok, ctx)))

RECURSIVE Described(_, _)
RECURSIVE DescribedEach(_, _, _, _)
RECURSIVE DescribedFor(_, _, _, _, _, _)

\* the body once per element, against the context extended with the element
DescribedEach(items, itemVar, body, ctx) ==
  IF items = <<>> THEN <<>>
  ELSE Described(body, Extend(ctx, itemVar, Head(items)))
         \o DescribedEach(Tail(items), itemVar, body, ctx)

\* the body once per value of the counter
DescribedFor(body, loopVar, i, limit, step, ctx) ==
  IF i < limit /\ step > 0
  THEN Described(body, Extend(ctx, loopVar, Num(i)))
         \o DescribedFor(body, loopVar, i + step, limit, step, ctx)
  ELSE <<>>

Described(seq, ctx) ==
  IF seq = <<>> THEN <<>>
  ELSE LET h == Head(seq)
           close == CASE h.k = "if" -> MatchEnd(seq, 2, 1, "if", "endif")
                      [] h.k = "foreach" ->
                           MatchEnd(seq, 2, 1, "foreach", "endforeach")
                      [] h.k = "for" -> MatchEnd(seq, 2, 1, "for", "endfor")
                      [] OTHER -> 0
       IN CASE h.k = "expr" -> DescribedExpr(h, ctx) \o Described(Tail(seq), ctx)
            [] h.k = "if" /\ close # 0 ->
                 LET p == ElseAt(seq, 2, 1)
                 IN Described(
                      IF Truthy(Evaluate(h, ctx))
                      THEN SubSeq(seq, 2, (IF p # 0 THEN p ELSE close) - 1)
                      ELSE IF p # 0 THEN SubSeq(seq, p + 1, close - 1) ELSE <<>>,
                      ctx) \o Described(Tail2(seq, close + 1), ctx)
            [] h.k = "foreach" /\ close # 0 ->
                 LET items == Evaluate(E(h.a), ctx)
                 IN (IF items.t = "arr"
                     THEN DescribedEach(items.items, h.b,
                                        SubSeq(seq, 2, close - 1), ctx)
                     ELSE <<>>) \o Described(Tail2(seq, close + 1), ctx)
            [] h.k = "for" /\ close # 0 ->
                 LET lim == ForLimit(h, ctx)
                 IN (IF lim.valid
                     THEN DescribedFor(SubSeq(seq, 2, close - 1), h.a, h.i,
                                       lim.n, h.s, ctx)
                     ELSE <<>>) \o Described(Tail2(seq, close + 1), ctx)
            [] OTHER -> <<h>> \o Described(Tail(seq), ctx)

\* each @yield of a parent text replaced on its own: by the section when the
\* child declares it, else by the default, else by nothing
RECURSIVE DescribedYields(_, _)
DescribedYields(seq, secs) ==
  IF seq = <<>> THEN <<>>
  ELSE LET t == Head(seq)
       IN (IF t.k \in {"y", "yd"}
           THEN IF t.a \in DOMAIN secs THEN secs[t.a] ELSE DefaultText(t.b)
           ELSE <<t>>) \o DescribedYields(Tail(seq), secs)

-----------------------------------------------------------------------------
(* Claims about render(): unknown names, fatal errors, determinism (Spec)   *)

Called == result.status # "none"

\* the reference is written as a template name: word characters, dots,
\* hyphens and the alias separator, no markup and no white space
IsTemplateName(r) ==
  \A x \in 1..Len(RefText(r)) :
    RefText(r)[x].k = "w" \/ RefText(r)[x] \in {C("-"), C("::")}

\* a non-empty template is registered under the reference of the call
TopRegistered ==
  call.ref \in DOMAIN call.templates /\ call.templates[call.ref] # <<>>

AliasMissing ==
  (\E x \in 1..Len(RefText(call.ref)) : RefText(call.ref)[x] = C("::"))
    /\ RefText(call.ref)[1].a \notin call.aliases

\* C1: for every template name r under which no template is registered,
\* render(r, D) raises an error that names r (or its alias) and returns no
\* rendering.
C1_UnknownNameRaises ==
  (Called /\ IsTemplateName(call.ref) /\ call.ref \notin DOMAIN call.templates)
    => /\ result.status = "error"
       /\ result.err[2] \in {call.ref, RefText(call.ref)[1].a}

\* the text the engine renders for the call: the registered template, else the
\* reference itself taken as an inline template
TopText == IF TopRegistered THEN call.templates[call.ref] ELSE RefText(call.ref)

\* the templates of the engine during the call
CallTemplates ==
  IF TopRegistered THEN call.templates
  ELSE [x \in (DOMAIN call.templates) \cup {InlineName} |->
          IF x = InlineName THEN RefText(call.ref) ELSE call.templates[x]]

HasExtends(text) == \E x \in 1..Len(text) : text[x].k = "ext"
FirstParent(text) ==
  text[CHOOSE x \in 1..Len(text) :
         text[x].k = "ext" /\ \A y \in 1..(x - 1) : text[y].k # "ext"].a
Holds(tpls, n) == n \in DOMAIN tpls /\ tpls[n] # <<>>

\* the @extends of the rendered text names a parent the engine does not hold
TopParentMissing ==
  HasExtends(TopText) /\ ~Holds(CallTemplates, FirstParent(TopText))

\* the text the directive passes work on: the parent's when there is one
WorkingText ==
  IF HasExtends(TopText) THEN CallTemplates[FirstParent(TopText)] ELSE TopText

\* an @include of the working text names a held template that has an @extends:
\* the engine made for the include holds the included text only
IncludedParentMissing ==
  \E x \in 1..Len(WorkingText) :
    /\ WorkingText[x].k = "inc"
    /\ Holds(CallTemplates, WorkingText[x].a)
    /\ HasExtends(CallTemplates[WorkingText[x].a])

\* the top-level name resolves to no template: not an inline text, and nothing
\* non-empty registered under it
TopMissing == ~TopRegistered /\ IsNameShaped(call.ref)

C6_RenderIsFunctionOfInputs ==
  Called =>
    LET fresh == BladeRender(call.templates, NoSections, NoData, call.aliases,
                             call.directives, call.components, call.ref,
                             call.data)
    IN /\ result.status = fresh.status
       /\ result.out = fresh.out
       /\ result.err = fresh.err

\* a template with a @yield("a") and no section was rendered after a render
\* that captured a section "a" and set other data
C6_Witness_RenderAfterCapture ==
  /\ result.status = "ok"
  /\ call.ref = "layout"
  /\ "a" \in DOMAIN call.sections
  /\ call.sections["a"] # <<>>
  /\ result.out = <<W("top"), W("end")>>

-----------------------------------------------------------------------------
(* Claims about inheritance: @extends, @section, @yield (SpecInherit)       *)

\* the page was rendered and the layout it extends is held
InheritCase ==
  /\ result.status = "ok"
  /\ call.ref = "page"
  /\ Holds(call.templates, "page")
  /\ HasExtends(call.templates["page"])
  /\ Holds(call.templates, "layout")

Child == call.templates["page"]
Parent == call.templates["layout"]

\* the sections the child declares
Declared == SectionsFrom(Child, 1, NoSections)

YieldCount(text) ==
  Cardinality({x \in 1..Len(text) : text[x].k \in {"y", "yd"}})

\* C3: a @yield(n[, d]) of the parent is replaced by the child's section n
\* whenever the child declares n, whatever its content (empty included); only
\* without such a section by the default d, else by the empty string.  Stated
\* for parents with one @yield.
C3_DeclaredSectionWins ==
  (InheritCase /\ YieldCount(Parent) = 1)
    => result.out = DescribedYields(Parent, Declared)

\* C4: with an @extends the output is built from the parent's text only: the
\* child's sections are captured, the child's text outside them is discarded,
\* and one level is resolved, so an @extends or @section of the parent's own
\* text stays in the output with its yields substituted.
C4_OutputBuiltFromParent ==
  InheritCase =>
    /\ result.out = YieldLatePass(ProcessYields(Parent, Declared), Declared)
    /\ \A x \in 1..Len(result.out) : result.out[x] # W("stray")
    /\ Len(result.out) >= Cardinality({x \in 1..Len(Parent) :
                                         Parent[x].k \in {"ext", "sec", "endsec"}})
    /\ \A x \in 1..Len(Parent) :
         Parent[x].k \in {"ext", "sec", "endsec"}
           => \E y \in 1..Len(result.out) : result.out[y] = Parent[x]

\* a child with text outside its section was rendered over a parent that has
\* an @extends and a @section of its own
C4_Witness_ParentKeepsMarkers ==
  /\ InheritCase
  /\ Child = <<Ext("layout"), Sec("a"), W("A"), EndSec, W("stray")>>
  /\ result.out = <<Ext("base"), Sec("c"), W("in"), W("A"), EndSec>>

\* C5: in a parent with several @yield markers, in any order and mix of the
\* two forms, each marker is replaced by its own section or default and the
\* text between the markers is kept.  Stated for children whose sections are
\* not empty.
C5_YieldsReplacedIndependently ==
  (InheritCase /\ YieldCount(Parent) >= 2
     /\ \A n \in DOMAIN Declared : Declared[n] # <<>>)
    => result.out = DescribedYields(Parent, Declared)

-----------------------------------------------------------------------------
(* Claims about interpolation and block directives (SpecBlocks)             *)

\* the template "t" was rendered
BlockCase ==
  /\ result.status = "ok"
  /\ call.ref = "t"
  /\ Holds(call.templates, "t")

BlockText == call.templates["t"]

\* C7: every {{ expr }} is replaced by the HTML-escaped string form of its
\* value, the five characters & < > " ' replaced once by their entities, at
\* top level, in @if branches and in @foreach and @for bodies.  Stated for
\* contexts whose values are defined.
C7_InterpolationEscapedEverywhere ==
  (BlockCase /\ BlockText \in InterpolationTexts
     /\ call.data \in PlainDatas \cup MarkupDatas)
    => result.out = Described(BlockText, call.data)

\* C8: a {{ expr }} whose value is undefined or null, or whose evaluation
\* fails, contributes the empty string, at top level and in @foreach and @for
\* bodies, and render does not raise.  Stated for contexts without markup
\* characters.
C8_MissingValueRendersEmpty ==
  (Called /\ call.ref = "t" /\ Holds(call.templates, "t")
     /\ BlockText \in InterpolationTexts \cup FailingTexts
     /\ call.data \in PlainDatas \cup MissingDatas)
    => /\ result.status = "ok"
       /\ result.out = Described(BlockText, call.data)

\* C9: for well-nested conditionals of any depth the output is the recursive
\* evaluation in which @if(c)A[@else B]@endif gives A when c is truthy and B
\* (empty without @else) otherwise, and no @if, @else or @endif is left.
C9_NestedConditionalsEvaluated ==
  (BlockCase /\ BlockText \in ConditionalTexts)
    => /\ result.out = Described(BlockText, call.data)
       /\ \A x \in 1..Len(result.out) :
            result.out[x].k \notin {"if", "else", "endif"}

\* C10: @foreach(c as v)B@endforeach renders to the concatenation, in order,
\* of B interpolated once per element against the outer context extended with
\* v bound to the element (v shadowing an outer v), and to the empty string
\* when c is empty or not a sequence.
C10_ForeachConcatenatesBodies ==
  (BlockCase /\ BlockText \in LoopTexts)
    => result.out = Described(BlockText, call.data)

-----------------------------------------------------------------------------
(* SpecInclude: a host that registers a page, a partial the page includes   *)
(* and a leaf the partial includes or extends, and renders them             *)

IncPageTexts ==
  { <<W("page"), Inc("part"), W("x")>>,
    <<Inc("ghost"), W("x")>> }

IncPartTexts ==
  { <<W("part"), Inc("leaf")>>,
    <<W("part"), E("name"), Dir("boom", "name")>>,
    <<Ext("leaf"), Sec("a"), W("P"), EndSec>> }

IncLeafTexts ==
  { <<W("leaf"), E("name")>>,
    <<W("top"), Y("a")>> }

NextInclude ==
  \/ \E t \in IncPageTexts : RegisterTemplate("page", t)
  \/ \E t \in IncPartTexts : RegisterTemplate("part", t)
  \/ \E t \in IncLeafTexts : RegisterTemplate("leaf", t)
  \/ \E n \in {"page", "part", "leaf"} : UnregisterTemplate(n)
  \/ \E h \in Handlers : RegisterDirective("boom", h)
  \/ \E ref \in {"page", "part"} : \E D \in Datas : Render(ref, D)

SpecInclude == Init /\ [][NextInclude]_vars

\* the rendering of template n as the top-level render produces it, with the
\* registries and the data of the call
FullRendering(n) ==
  EngineRender(call.templates, NoSections, call.directives, n, call.data)

RECURSIVE DescribedIncludes(_)
\* a text of words, expressions, custom directives and @include: each
\* @include(n) stands for the full rendering of n, or for a placeholder
\* naming n when n is not registered
DescribedIncludes(seq) ==
  IF seq = <<>> THEN <<>>
  ELSE (IF Head(seq).k # "inc"
        THEN ProcessExpressions(
               CustomDirectives(<<Head(seq)>>, call.directives, call.data),
               call.data)
        ELSE IF ~Found(call.templates, Head(seq).a)
        THEN <<Ph("Template not found", Head(seq).a)>>
        ELSE FullRendering(Head(seq).a).text)
       \o DescribedIncludes(Tail(seq))

\* a render of a registered template made of words, expressions, custom
\* directives and @include, each included template being one the top-level
\* render can render
IncludeCase ==
  /\ Called
  /\ Found(call.templates, call.ref)
  /\ \E x \in 1..Len(call.templates[call.ref]) :
       /\ call.templates[call.ref][x].k = "inc"
       /\ Found(call.templates, call.templates[call.ref][x].a)
  /\ \A x \in 1..Len(call.templates[call.ref]) :
       LET t == call.templates[call.ref][x]
       IN /\ t.k \in {"w", "expr", "dir", "inc"}
          /\ (t.k = "inc" /\ Found(call.templates, t.a))
               => (FullRendering(t.a).ok /\ ~FullRendering(t.a).hang)

\* C11: @include(n) of a registered template n is replaced by the full
\* rendering of n, its own @include, @extends and custom directives resolved
\* against the registries of the top-level render; the render returns
\* normally with the rest of the page
C11_IncludeIsFullRendering ==
  IncludeCase =>
    /\ result.status = "ok"
    /\ result.out = DescribedIncludes(call.templates[call.ref])

-----------------------------------------------------------------------------
(* SpecDirectives: a host that registers a custom directive and a template  *)
(* using it, renders the template and asks the directive registry           *)

DirectiveTexts ==
  { <<W("Hello"), Dir("boom", "name"), W("x")>>,
    <<Dir("boom", "name"), E("name"), Dir("boom", "")>>,
    <<W("a"), Dir("ghost", "name")>> }

NextDirectives ==
  \/ \E t \in DirectiveTexts : RegisterTemplate("page", t)
  \/ UnregisterTemplate("page")
  \/ \E h \in Handlers : RegisterDirective("boom", h)
  \/ \E D \in Datas : Render("page", D)
  \/ \E n \in {"boom", "ghost"} : \E a \in {"name", ""} : \E D \in Datas :
       Process(n, a, D)

SpecDirectives == Init /\ [][NextDirectives]_vars

RECURSIVE DescribedDirectives(_, _, _)
\* a text of words, expressions and custom directives: a directive whose
\* handler throws stands for a placeholder naming it, any other token for
\* what the engine makes of it
DescribedDirectives(seq, dirs, ctx) ==
  IF seq = <<>> THEN <<>>
  ELSE (IF Head(seq).k = "dir" /\ HandlerOf(dirs, Head(seq).a) = "throws"
        THEN <<Ph("Error in directive", Head(seq).a)>>
        ELSE ProcessExpressions(CustomDirectives(<<Head(seq)>>, dirs, ctx),
                                ctx))
       \o DescribedDirectives(Tail(seq), dirs, ctx)

\* a render of a registered template of words, expressions and custom
\* directives, one of them with a handler that throws
ThrowingDirectiveCase ==
  /\ Called
  /\ Found(call.templates, call.ref)
  /\ \A x \in 1..Len(call.templates[call.ref]) :
       call.templates[call.ref][x].k \in {"w", "expr", "dir"}
  /\ \E x \in 1..Len(call.templates[call.ref]) :
       /\ call.templates[call.ref][x].k = "dir"
       /\ HandlerOf(call.directives, call.templates[call.ref][x].a) = "throws"

\* C12: when a registered handler throws, DirectiveRegistry.process returns
\* a placeholder comment naming the directive, and a render of a template
\* using the directive returns normally with the occurrence replaced by that
\* placeholder
C12_ThrowingHandlerLeavesPlaceholder ==
  /\ (probe.op = "process" /\ HandlerOf(directives, probe.name) = "throws")
       => (~probe.thrown /\ probe.value = <<Ph("Error in directive", probe.name)>>)
  /\ ThrowingDirectiveCase =>
       /\ result.status = "ok"
       /\ result.out = DescribedDirectives(call.templates[call.ref],
                                           call.directives, call.data)

-----------------------------------------------------------------------------
(* SpecComponents: a host that registers component classes and templates    *)
(* invoking them, and renders the templates                                 *)

CardClass == HostClass(<<W("box"), E("content"), W("end")>>)
AlertClass == HostClass(<<W("alert"), E("content"), E("type")>>)

ComponentPageTexts ==
  { <<Comp("card"), C(" "), E("name"), NL, EndComp, W("rest")>>,
    <<Comp("card"), W("one"), EndComp, Comp("card"), W("two"), EndComp>>,
    <<Comp("ghost"), W("b"), EndComp, Comp("alert"), W("hi"), EndComp,
      W("rest")>>,
    <<CompWith("components.alert", "type", "name"), W("one"), EndComp,
      Comp("alert"), W("two"), EndComp>> }

NextComponents ==
  \/ \E t \in ComponentPageTexts : RegisterTemplate("page", t)
  \/ RegisterTemplate("components.ghost", <<W("tpl"), E("content")>>)
  \/ \E n \in {"page", "components.ghost"} : UnregisterTemplate(n)
  \/ \E c \in {CardClass, ThrowingClass} : RegisterComponent("card", c)
  \/ \E c \in {AlertClass, ThrowingClass} :
       RegisterComponent("components.alert", c)
  \/ \E D \in Datas : Render("page", D)

SpecComponents == Init /\ [][NextComponents]_vars

\* a render of the registered page, made of words, expressions and component
\* invocations
ComponentCase ==
  /\ Called
  /\ call.ref = "page"
  /\ Found(call.templates, "page")

\* the text engine.render returns for the call, which BladeHtml.render hands
\* to ComponentProcessor.process
EngineText ==
  EngineRender(call.templates, call.sections, call.directives, call.ref,
               call.data).text

RECURSIVE SlotsIn(_, _)
\* the texts setSlot('default', ..) receives for the invocations of a text
SlotsIn(seq, i) ==
  IF i > Len(seq) THEN <<>>
  ELSE IF seq[i].k = "comp" /\ FirstKind(seq, i + 1, {"endcomp"}) # 0
  THEN <<Trim(SubSeq(seq, i + 1, FirstKind(seq, i + 1, {"endcomp"}) - 1))>>
         \o SlotsIn(seq, FirstKind(seq, i + 1, {"endcomp"}) + 1)
  ELSE SlotsIn(seq, i + 1)

\* C13: the default-slot text handed to each component instance is the body
\* as written in the template, trimmed, its `{{ }}` not yet evaluated against
\* the outer context
C13_SlotIsBodyAsWritten ==
  (/\ ComponentCase
   /\ \A x \in 1..Len(call.templates[call.ref]) :
        call.templates[call.ref][x].k = "comp"
          => call.templates[call.ref][x].a \in DOMAIN call.components)
    => SlotsIn(EngineText, 1) = SlotsIn(call.templates[call.ref], 1)

\* the registry as the dependency loading of the call leaves it
Loaded ==
  RegisterUsedComponents(
    call.components, call.templates,
    AnalyzeTemplateDependencies(call.templates, call.aliases, call.ref).used)

\* the registry holds the name, or the name has no dot and the registry holds
\* its `components.` form
Resolvable(n) ==
  \/ n \in DOMAIN Loaded
  \/ n \in BareNames /\ WithComponents(n) \in DOMAIN Loaded

\* the class an invocation of a resolvable name ends in
FinalClass(n) ==
  LET c == IF n \in DOMAIN Loaded THEN Loaded[n] ELSE Loaded[WithComponents(n)]
  IN IF c.kind = "alias" /\ c.target \in DOMAIN Loaded THEN Loaded[c.target]
     ELSE c

RenderThrows(n) == FinalClass(n).kind \in {"throws", "alias"}

InOutput(tok) == \E x \in 1..Len(result.out) : result.out[x] = tok

\* the text of the page after its last @endcomponent
TrailingText(seq) ==
  Tail2(seq, 1 + CHOOSE x \in 0..Len(seq) :
                   /\ x = 0 \/ seq[x].k = "endcomp"
                   /\ \A y \in (x + 1)..Len(seq) : seq[y].k # "endcomp")

RECURSIVE DescribedInvocations(_, _)
\* a page of words and component invocations that are not nested: each
\* invocation stands for the rendering of an instance of its own, whose
\* default slot is the invocation's own body
DescribedInvocations(seq, i) ==
  IF i > Len(seq) THEN <<>>
  ELSE IF seq[i].k = "comp"
  THEN Invoke(components, seq[i],
              ProcessExpressions(
                SubSeq(seq, i + 1, MatchEnd(seq, i + 1, 1, "comp", "endcomp") - 1),
                call.data),
              call.data)
         \o DescribedInvocations(seq, MatchEnd(seq, i + 1, 1, "comp", "endcomp") + 1)
  ELSE ProcessExpressions(<<seq[i]>>, call.data)
         \o DescribedInvocations(seq, i + 1)

Occurrences(tok) ==
  Cardinality({x \in 1..Len(result.out) : result.out[x] = tok})

\* a render of a page that invokes one component type more than once
SiblingCase ==
  /\ ComponentCase
  /\ \E x, y \in 1..Len(call.templates[call.ref]) :
       /\ x < y
       /\ call.templates[call.ref][x].k = "comp"
       /\ call.templates[call.ref][y].k = "comp"
       /\ ShortOf(call.templates[call.ref][x].a)
            = ShortOf(call.templates[call.ref][y].a)

-----------------------------------------------------------------------------
(* SpecAnalyze: a host that registers templates referring to one another    *)
(* and to components, and asks for the dependencies of a template           *)

AnalyzePageTexts ==
  { <<Ext("layout"), Sec("a"), Comp("components.alert"), W("A"), EndComp,
      EndSec>>,
    <<Inc("part"), Comp("card"), EndComp>>,
    <<Ext("page"), Inc("page")>>,
    <<Comp("ui.card"), EndComp, Inc("ghost")>> }

AnalyzeLayoutTexts ==
  { <<Y("a"), Inc("part")>>,
    <<Ext("page"), Comp("alert"), EndComp>> }

AnalyzePartTexts ==
  { <<Comp("card"), W("x"), EndComp>>,
    <<Inc("layout"), Inc("page")>> }

AnalyzeCardTexts ==
  { <<W("box"), Comp("alert"), EndComp, E("content")>> }

NextAnalyze ==
  \/ \E t \in AnalyzePageTexts : RegisterTemplate("page", t)
  \/ \E t \in AnalyzeLayoutTexts : RegisterTemplate("layout", t)
  \/ \E t \in AnalyzePartTexts : RegisterTemplate("part", t)
  \/ \E t \in AnalyzeCardTexts : RegisterTemplate("card", t)
  \/ \E n \in {"page", "layout", "part", "card"} : UnregisterTemplate(n)
  \/ \E root \in {"page", "layout", "ghost"} : Analyze(root)

SpecAnalyze == Init /\ [][NextAnalyze]_vars

\* the names a registered template refers to: the parents it extends, the
\* templates it includes, and the components it invokes, under the name as
\* written and under its other form
RefersTo(n) ==
  LET text == templates[n]
      comp == {text[x].a : x \in {y \in 1..Len(text) : text[y].k = "comp"}}
  IN {text[x].a : x \in {y \in 1..Len(text) : text[y].k \in {"ext", "inc"}}}
       \cup comp
       \cup {FullOf(c) : c \in comp}
       \cup {ShortOf(c) : c \in comp}

RECURSIVE ReachableFrom(_)
\* the registered templates reachable from a set of them
ReachableFrom(set) ==
  LET next == set \cup ((UNION {RefersTo(n) : n \in set}) \cap DOMAIN templates)
  IN IF next = set THEN set ELSE ReachableFrom(next)

Asked == probe.op = "analyze"

\* C16: the result holds every component name an @component of the root, or
\* of a registered template reachable from it through @extends, @include and
\* @component references, refers to
C16_EveryReachableComponentListed ==
  Asked =>
    \A n \in ReachableFrom({probe.name} \cap DOMAIN templates) :
      \A x \in 1..Len(templates[n]) :
        templates[n][x].k = "comp" => templates[n][x].a \in probe.value

NoRepeat(seq) == \A x, y \in 1..Len(seq) : seq[x] = seq[y] => x = y

\* C17: the traversal ends for every set of registered templates, cycles,
\* self-references and references to unregistered templates included, and
\* fetches the source of a name at most once
C17_AnalysisTerminatesScanningOnce ==
  Asked => (~probe.thrown /\ NoRepeat(probe.args))

\* a root on a reference cycle has been analysed
C17_Witness_CycleAnalysed ==
  /\ Asked
  /\ probe.name \in DOMAIN templates
  /\ \E n \in ReachableFrom({probe.name}) :
       probe.name \in RefersTo(n)
  /\ Len(probe.args) >= 2

\* C18: a name without a dot is in the result exactly when its `components.`
\* form is
C18_ResultDualIndexed ==
  Asked =>
    \A b \in BareNames : b \in probe.value <=> WithComponents(b) \in probe.value

\* the result of an analysis holds both forms of a name a template wrote in
\* one form
C18_Witness_BothFormsListed ==
  /\ Asked
  /\ {"alert", "components.alert"} \subseteq probe.value
  /\ \A n \in DOMAIN templates : \A x \in 1..Len(templates[n]) :
       templates[n][x] # Comp("alert")

-----------------------------------------------------------------------------
(* SpecEvaluate: a host that calls the ExpressionEvaluator                  *)

EvaluateValues ==
  { Undef, Null, Bool(TRUE), Bool(FALSE), Num(0), Num(7), Str(<<W("text")>>),
    Str(<<>>), Arr(<<Num(1)>>), Obj([x \in {"p"} |-> Str(<<W("deep")>>)]),
    Obj([x \in {"p"} |-> Null]), Obj(NoProps) }

EvaluateContexts == {NoData} \cup {[x \in {"v"} |-> val] : val \in EvaluateValues}

EvaluatePaths == { E("v"), EPath("v", "p"), E("w"), EPath("w", "p") }

NextEvaluate ==
  \/ \E tok \in EvaluatePaths \cup {EBad("v")} : \E ctx \in EvaluateContexts :
       AskEvaluate(tok, ctx)
  \/ \E tok \in EvaluatePaths \cup {EBad("v")} : \E ctx \in EvaluateContexts :
       AskEvaluateCondition(tok, ctx)
  \/ \E tok \in EvaluatePaths : \E ctx \in EvaluateContexts :
       AskGetNestedProperty(tok, ctx)

SpecEvaluate == Init /\ [][NextEvaluate]_vars

\* the path a.b asked of a context whose a is missing, null or not an object
BrokenPath ==
  /\ probe.args.c = "path"
  /\ probe.args.b # ""
  /\ Lookup(probe.data, probe.args.a).t # "obj"

\* C19: evaluate, evaluateCondition and getNestedProperty never raise; a
\* dotted path whose intermediate value is missing, null or not an object
\* resolves to undefined or null, and evaluateCondition on it returns false
C19_EvaluatorNeverRaises ==
  probe.op \in {"evaluate", "evaluateCondition", "getNestedProperty"} =>
    /\ ~probe.thrown
    /\ BrokenPath =>
         IF probe.op = "evaluateCondition" THEN probe.value = FALSE
         ELSE probe.value \in {Undef, Null}

-----------------------------------------------------------------------------
(* SpecFallback: a host that renders `{{ name || 'Guest' }}` in a template  *)
(* and in a component template                                              *)

GreetClass == HostClass(<<W("hi"), EOr("name", "Guest")>>)

FallbackTexts ==
  { <<W("hi"), EOr("name", "Guest")>>,
    <<CompWith("greet", "name", "name"), EndComp>> }

FallbackDatas ==
  {NoData} \cup
  {[x \in {"name"} |-> v] :
     v \in {Str(<<W("John")>>), Str(<<W("Ann")>>), Str(<<>>), Num(0), Num(7),
            Bool(TRUE), Bool(FALSE), Null, Undef}}

NextFallback ==
  \/ \E t \in FallbackTexts : RegisterTemplate("page", t)
  \/ UnregisterTemplate("page")
  \/ RegisterComponent("greet", GreetClass)
  \/ \E D \in FallbackDatas : Render("page", D)

SpecFallback == Init /\ [][NextFallback]_vars

\* left || 'lit': the string of left when left is defined, not null and not
\* false, the literal otherwise
DescribedOr(tok, ctx) ==
  IF Lookup(ctx, tok.a).t \in {"undef", "null"} \/ Lookup(ctx, tok.a) = Bool(FALSE)
  THEN <<W(tok.b)>>
  ELSE StringOf(Lookup(ctx, tok.a))

\* a render of the page that writes the fallback itself, or hands `name` to
\* the registered component whose template writes it
FallbackCase ==
  /\ Called
  /\ Found(call.templates, call.ref)
  /\ \/ FirstKind(call.templates[call.ref], 1, {"comp"}) = 0
     \/ "greet" \in DOMAIN call.components

\* C20: `{{ left || right }}` gives the value of left when it is defined, not
\* null and not false, and the right-hand literal otherwise, in a template
\* rendered by render() and in a component template
C20_FallbackOperator ==
  FallbackCase =>
    /\ result.status = "ok"
    /\ result.out = <<W("hi")>> \o DescribedOr(EOr("name", "Guest"), call.data)

-----------------------------------------------------------------------------
(* SpecRegistry: a host that registers, replaces and unregisters templates  *)
(* and asks the engine for their text                                       *)

\* Engine.getTemplateContent(name), called by the host
GetTemplateContent(n) ==
  /\ probe' = [op |-> "content", name |-> n, args |-> <<>>, data |-> NoData,
               thrown |-> ~Found(templates, n),
               value |-> IF Found(templates, n) THEN templates[n] ELSE <<>>]
  /\ result' = NoResult
  /\ call' = NoCall
  /\ UNCHANGED <<templates, sections, data, aliases, directives, components>>

RegistryNames == {"home", "about", "t1::home"}

RegistryTexts == { <<>>, <<W("one")>>, <<W("two"), E("name")>> }

NextRegistry ==
  \/ \E n \in RegistryNames, t \in RegistryTexts : RegisterTemplate(n, t)
  \/ \E n \in RegistryNames : UnregisterTemplate(n)
  \/ \E n \in RegistryNames : GetTemplateContent(n)

SpecRegistry == Init /\ [][NextRegistry]_vars

\* the host has just asked for the text of a template
AskedContent == probe.op = "content"

\* C22: getTemplateContent(n) returns exactly the text of the latest
\* registration of n that no unregistration followed, whatever that text is,
\* and raises only when n has no such registration
C22_ContentIsLatestRegistration ==
  AskedContent =>
    /\ probe.thrown <=> probe.name \notin DOMAIN templates
    /\ ~probe.thrown => probe.value = templates[probe.name]

-----------------------------------------------------------------------------
(* Claims about what render() leaves in the registries                      *)

\* the reference of the call is template text, not a name
InlineCall == Called /\ ~IsTemplateName(call.ref)

\* C23: once render(inlineText, D) has completed, by returning or by raising,
\* no template registered for the inline text remains: the registry holds
\* the names and texts it held before the call
C23_InlineTemplateNeverRemains ==
  InlineCall => InlineName \notin DOMAIN templates /\ templates = call.templates


AddedComponents == (DOMAIN components) \ (DOMAIN call.components)

Probed(n) ==
  /\ n \in BareNames
  /\ n \notin DOMAIN Loaded
  /\ WithComponents(n) \in DOMAIN Loaded
  /\ Loaded[WithComponents(n)].kind = "class"

\* the text with every probed bare name written in its qualified form
Qualified(seq) ==
  [x \in 1..Len(seq) |->
     IF seq[x].k = "comp" /\ Probed(seq[x].a)
     THEN [seq[x] EXCEPT !.a = WithComponents(seq[x].a)]
     ELSE seq[x]]

ProbeCase ==
  /\ ComponentCase
  /\ \E x \in 1..Len(EngineText) :
       EngineText[x].k = "comp" /\ Probed(EngineText[x].a)

\* C30: a component invoked by a bare name that is resolved through the
\* `components.` probe renders what the invocation of the qualified name with
\* the same props and body renders: the wrapper forwards the props and every
\* slot
C30_BareNameRendersAsQualified ==
  ProbeCase =>
    result.out = ComponentPass(Qualified(EngineText), 1, Loaded, call.data).text

-----------------------------------------------------------------------------
(* SpecAlias: a host that registers aliases and templates under             *)
(* alias-qualified names and renders alias-qualified references             *)

AliasHomeTexts ==
  { <<W("home"), E("name")>>,
    <<Ext("t1::layout"), Sec("a"), W("A"), E("name"), EndSec>> }

AliasLayoutTexts == { <<W("top"), Y("a"), W("end")>>, <<E("name"), YD("a", "dflt")>> }

NextAlias ==
  \/ \E a \in {"t1", "t2"} : RegisterAlias(a)
  \/ \E n \in {"t1::home", "t2::home"}, t \in AliasHomeTexts :
       RegisterTemplate(n, t)
  \/ \E t \in AliasLayoutTexts : RegisterTemplate("t1::layout", t)
  \/ \E n \in {"t1::home", "t2::home", "t1::layout"} : UnregisterTemplate(n)
  \/ \E ref \in {"t1::home", "t2::home", "t1::layout"}, D \in Datas :
       Render(ref, D)

SpecAlias == Init /\ [][NextAlias]_vars

\* the reference of the call is alias-qualified and its alias is registered
\* or not
AliasCall(known) ==
  /\ Called
  /\ HasAliasSep(call.ref)
  /\ (AliasOf(call.ref) \in call.aliases) = known

\* a template is registered under the reference, and so is the parent it
\* extends, if any
AliasTemplateRegistered ==
  /\ call.ref \in DOMAIN call.templates
  /\ HasExtends(call.templates[call.ref])
       => FirstParent(call.templates[call.ref]) \in DOMAIN call.templates

\* the rendering of the template registered under the reference: its text,
\* or its parent's text, the yields replaced and the expressions evaluated
AliasRendering ==
  LET t == call.templates[call.ref]
  IN Described(DescribedYields(IF HasExtends(t)
                               THEN call.templates[FirstParent(t)] ELSE t,
                               SectionsFrom(t, 1, NoSections)),
               call.data)

-----------------------------------------------------------------------------
(* SpecLoops: a host that registers one template made of a loop and renders *)
(* it against contexts that give the loop its limit, its collection and the *)
(* values its body tests                                                    *)

\* @for headers over a body of words: a literal limit, an array length, a
\* limit named in the context, a step of two, and `i = i + 0` on no body
ForHeadTexts ==
  { <<ForLit("i", 0, 3, 1), W("B"), EndFor>>,
    <<ForLen("i", 0, "items", 1), W("B"), EndFor>>,
    <<ForVar("i", 0, "n", 1), W("B"), EndFor>>,
    <<ForVar("i", 1, "n", 2), W("B"), EndFor>>,
    <<W("a"), ForLit("i", 0, 2, 0), EndFor, W("z")>> }

\* an @if in the body of a loop, testing the loop variable
LoopIfTexts ==
  { <<ForEach("items", "x"), If("x"), W("Y"), Else, W("N"), EndIf, EndForEach>>,
    <<ForLit("i", 0, 2, 1), If("i"), W("Y"), Else, W("N"), EndIf, EndFor>> }

LoopCtx(n, items) ==
  [k \in {"n", "items"} |-> IF k = "n" THEN n ELSE items]

LoopDatas ==
  { LoopCtx(n, items) :
      n \in {Num(0), Num(2), Num(4), Str(<<W("many")>>), Undef},
      items \in {Arr(<<>>), Arr(<<Bool(TRUE), Bool(FALSE)>>), Str(<<W("text")>>)} }
    \cup { [k \in {"items", "x"} |-> IF k = "x" THEN Bool(TRUE)
                                     ELSE Arr(<<Bool(FALSE), Bool(TRUE)>>)] }

NextLoops ==
  \/ \E t \in ForHeadTexts \cup LoopIfTexts : RegisterTemplate("t", t)
  \/ UnregisterTemplate("t")
  \/ \E D \in LoopDatas : Render("t", D)

SpecLoops == Init /\ [][NextLoops]_vars

\* C26: every call of render terminates: it returns or raises; no @for header
\* makes the loop run without end
C26_RenderTerminates ==
  Called => result.status \in {"ok", "error"}

\* the limit of a header as described: the literal, the length of the array,
\* the number held under the name (0 included), and 5 only when the name
\* does not resolve to a number
DescribedLimit(t, ctx) ==
  CASE t.b = "lit" -> t.j
    [] t.b = "len" -> Len(Lookup(ctx, t.c).items)
    [] OTHER -> IF Lookup(ctx, t.c).t = "num" THEN Lookup(ctx, t.c).n ELSE 5

\* a @for over a body of words whose limit is resolvable was rendered
ForCase ==
  /\ Called
  /\ call.ref = "t"
  /\ Holds(call.templates, "t")
  /\ BlockText \in ForHeadTexts
  /\ BlockText[1].k = "for"
  /\ BlockText[1].b = "len" => Lookup(call.data, BlockText[1].c).t = "arr"

\* C27: @for(v = a; v < L; v = v + s)B@endfor emits B once for each of
\* v = a, a+s, a+2s, .. below n, where n is the literal, the array length or
\* the number under L in the context, 0 included, and n is 5 only when L does
\* not resolve to a number
C27_ForLimitResolved ==
  ForCase =>
    /\ result.status = "ok"
    /\ result.out = DescribedFor(<<W("B")>>, BlockText[1].a, BlockText[1].i,
                                 DescribedLimit(BlockText[1], call.data),
                                 BlockText[1].s, call.data)

\* C28: an @if in the body of a @foreach or @for is evaluated once per
\* iteration, against the context of that iteration
C28_IfInsideLoopPerIteration ==
  (BlockCase /\ BlockText \in LoopIfTexts)
    => result.out = Described(BlockText, call.data)

-----------------------------------------------------------------------------
(* SpecData: a host whose data values hold text that reads as template      *)
(* syntax, rendered through interpolation, a loop and a directive handler   *)

\* a value is interpolated at top level, in an @if branch, in a @foreach
\* body, and returned by the handler of @boom
DataTexts ==
  { <<W("a"), E("v"), W("z")>>,
    <<If("c"), E("v"), Else, W("no"), EndIf>>,
    <<ForEach("items", "x"), E("x"), W("s"), EndForEach>>,
    <<W("a"), Dir("boom", "v"), W("z")>> }

\* the text `{{ name }}` held as a value
SyntaxValue == Str(<<E("name")>>)

DataCtx(v, c, items) ==
  [k \in {"v", "c", "items", "name"} |->
     CASE k = "v" -> v
       [] k = "c" -> c
       [] k = "items" -> items
       [] OTHER -> Str(<<W("World")>>)]

SyntaxDatas ==
  { DataCtx(v, c, items) :
      v \in {Str(<<W("plain")>>), SyntaxValue},
      c \in {Bool(TRUE), Bool(FALSE)},
      items \in {Arr(<<Str(<<W("one")>>)>>),
                 Arr(<<SyntaxValue, Str(<<W("two")>>)>>)} }

NextData ==
  \/ \E t \in DataTexts : RegisterTemplate("t", t)
  \/ UnregisterTemplate("t")
  \/ \E h \in Handlers : RegisterDirective("boom", h)
  \/ \E D \in SyntaxDatas : Render("t", D)

SpecData == Init /\ [][NextData]_vars

\* a template of DataTexts was rendered, its directive, if any, handled by
\* the handler that returns the value of its argument
DataCase ==
  /\ BlockCase
  /\ BlockText \in DataTexts
  /\ (\E x \in 1..Len(BlockText) : BlockText[x].k = "dir")
       => HandlerOf(call.directives, "boom") = "echo"

\* C29: text that enters the output from a data value, by interpolation at
\* any place or as the output of a directive handler, is never read again as
\* template syntax by a later pass: the output is the template with each
\* expression and directive replaced once by the text of its value
C29_DataNeverReinterpreted ==
  DataCase =>
    result.out = CustomDirectives(Described(BlockText, call.data),
                                  call.directives, call.data)

-----------------------------------------------------------------------------
(* SpecContext: a host that renders loops and includes which bind names     *)
(* the caller's data has or lacks                                           *)

ContextPageTexts ==
  { <<ForEach("items", "x"), E("x"), EndForEach, E("x")>>,
    <<ForLit("i", 0, 2, 1), E("i"), EndFor, E("i")>>,
    <<IncWith("part", "x", "v"), E("x")>>,
    <<Inc("part"), E("x")>> }

ContextPartTexts ==
  { <<W("p"), E("x")>>,
    <<ForEach("items", "x"), E("x"), W("s"), EndForEach>> }

ContextDatas ==
  { [k \in {"items", "v"} |->
       IF k = "v" THEN Str(<<W("val")>>) ELSE Arr(<<Num(1), Num(2)>>)],
    [k \in {"items", "v", "x", "i"} |->
       CASE k = "v" -> Str(<<W("val")>>)
         [] k = "items" -> Arr(<<Str(<<W("one")>>)>>)
         [] k = "x" -> Str(<<W("outer")>>)
         [] OTHER -> Num(7)],
    [k \in {"items", "x"} |->
       IF k = "x" THEN Num(0) ELSE Arr(<<Str(<<W("a")>>), Str(<<W("b")>>)>>)],
    [k \in {"items"} |-> Arr(<<>>)] }

NextContext ==
  \/ \E t \in ContextPageTexts : RegisterTemplate("page", t)
  \/ \E t \in ContextPartTexts : RegisterTemplate("part", t)
  \/ \E n \in {"page", "part"} : UnregisterTemplate(n)
  \/ \E D \in ContextDatas : Render("page", D)

SpecContext == Init /\ [][NextContext]_vars

\* the names a loop header or an include of the text binds
BoundNames(seq) ==
  {seq[x].b : x \in {y \in 1..Len(seq) : seq[y].k \in {"foreach", "inc"}}}
    \cup {seq[x].a : x \in {y \in 1..Len(seq) : seq[y].k = "for"}}

\* C21: after a render call, one whose template runs @foreach, @for or an
\* @include with additional data included, the data mapping the caller passed
\* has the keys and values it had before the call
C21_CallerDataUnchanged ==
  (Called /\ result.status \in {"ok", "error"}) => data = call.data

\* a loop or an include bound a name the caller's data lacks, over at least
\* one iteration, and the call returned
C21_Witness_LoopBoundNewName ==
  /\ result.status = "ok"
  /\ call.ref = "page"
  /\ Holds(call.templates, "page")
  /\ Lookup(call.data, "items").t = "arr"
  /\ Lookup(call.data, "items").items # <<>>
  /\ BoundNames(call.templates["page"]) \ {""} # {}
  /\ BoundNames(call.templates["page"]) \cap DOMAIN call.data = {}
  /\ data = call.data

====
